---- MODULE Spec2Model ----
(***************************************************************************)
(* Model of Laba3_zvit.py: the report generator that runs every exercise   *)
(* script of its directory, sanitizes the captured output and assembles    *)
(* one document.                                                           *)
(*                                                                         *)
(* Text is a sequence of characters, each character a one-character        *)
(* string.  Characters outside ASCII are written by code point ("U+2717"). *)
(* Fixed Ukrainian texts of the document are transliterated.               *)
(***************************************************************************)
EXTENDS Integers, Sequences, FiniteSets, TLC

VARIABLES
    pc,            \* position of the main program / create_report
    directory,     \* names of the files in CURRENT_DIR
    py_files,      \* create_report: py_files (names, in list order)
    idx,           \* position of the running for loop (1-based)
    task_results,  \* create_report: task_results (dict name -> text)
    captured,      \* what capture_output returned, by exercise name
    run_order,     \* the exercises launched so far, in the order of launch
    launches,      \* the subprocess launches so far: script, arguments, stdin
    sources,       \* what reading each exercise file gave, by exercise name
    doc,           \* the Document: its paragraphs in order
    report_writes, \* number of times doc.save wrote the report file
    console,       \* what the program printed, in order
    san_pc,        \* sanitizer harness: position
    san_input,     \* sanitizer harness: the text given to sanitize_output
    san_result,    \* sanitizer harness: sanitize_output(san_input)
    san_again,     \* sanitizer harness: sanitize_output(san_result)
    cap_pc,        \* capture harness: position
    cap_run,       \* capture harness: what subprocess.run did
    cap_result,    \* capture harness: what capture_output returned
    fact_memo,     \* riven2zada4a1: the memo dict shared by the calls
    fact_calls,    \* riven2zada4a1: the calls so far, each with its results
    fib_memo,      \* riven2zada4a2: the memo dict shared by the calls
    fib_calls,     \* riven2zada4a2: the rounds of calls so far, with results
    rot_calls,     \* riven1zada4a4: the calls so far, each with its results
    rev_pc,        \* riven2zada4a4: where read_and_reverse_recursive_v2 is
    rev_lines,     \* riven2zada4a4: the lines the user enters
    rev_read,      \* riven2zada4a4: how many of them input() has returned
    rev_stack,     \* riven2zada4a4: the frames of _read_and_print, outermost first
    rev_out,       \* riven2zada4a4: what has been printed, in order
    rev_results,   \* riven2zada4a4: what the other readers did with the same lines
    stat_calls,    \* riven3zada4a1: the calls of count_file_stats, each with its result
    trace_pc,      \* riven2zada4a2: where fibonacci_with_steps is
    trace_args,    \* riven2zada4a2: the arguments n and max_depth of the call
    trace_frames,  \* riven2zada4a2: the frames of _fib, outermost first
    trace_depth,   \* riven2zada4a2: tracer.depth
    trace_call_count, \* riven2zada4a2: tracer.call_count
    trace_calls,   \* riven2zada4a2: tracer.calls
    trace_result   \* riven2zada4a2: what fibonacci_with_steps returns

vars == <<pc, directory, py_files, idx, task_results, captured,
          run_order, launches, sources, doc, report_writes, console,
          san_pc, san_input, san_result, san_again,
          cap_pc, cap_run, cap_result,
          fact_memo, fact_calls, fib_memo, fib_calls,
          rot_calls,
          rev_pc, rev_lines, rev_read, rev_stack, rev_out, rev_results,
          stat_calls,
          trace_pc, trace_args, trace_frames, trace_depth, trace_call_count, trace_calls, trace_result>>

coordVars == <<pc, directory, py_files, idx, task_results, captured,
               run_order, launches, sources, doc, report_writes, console>>

sanVars == <<san_pc, san_input, san_result, san_again>>

capVars == <<cap_pc, cap_run, cap_result>>

rotVars == <<rot_calls>>

revVars == <<rev_pc, rev_lines, rev_read, rev_stack, rev_out, rev_results>>

statVars == <<stat_calls>>

traceVars == <<trace_pc, trace_args, trace_frames, trace_depth, trace_call_count, trace_calls, trace_result>>

exerciseVars == <<fact_memo, fact_calls, fib_memo, fib_calls,
                  rot_calls,
                  rev_pc, rev_lines, rev_read, rev_stack, rev_out, rev_results,
                  stat_calls,
                  trace_pc, trace_args, trace_frames, trace_depth, trace_call_count, trace_calls, trace_result>>

harnessVars == <<sanVars, capVars, exerciseVars>>

(***************************************************************************)
(* Bounds of the model.                                                    *)
(***************************************************************************)
\* largest number of lines of a text given to the sanitizer harness
MaxLines == 3

\* largest number of exercise scripts in the directory
MaxFiles == 2

(***************************************************************************)
(* Text primitives (Python str methods).                                   *)
(***************************************************************************)
\* characters str.strip() removes (the ones the model uses)
Whitespace == {" ", "\t", "\n", "\r", "\f"}

\* characters str.splitlines() breaks a line at ("\r\n" counts once)
LineBreaks == {"\n", "\r", "\f"}

\* index of the first character of s that is not in cs, Len(s)+1 if none
FirstNotIn(s, cs) ==
    IF \A k \in 1..Len(s) : s[k] \in cs
    THEN Len(s) + 1
    ELSE CHOOSE k \in 1..Len(s) :
            s[k] \notin cs /\ \A j \in 1..(k - 1) : s[j] \in cs

\* index of the last character of s that is not in cs, 0 if none
LastNotIn(s, cs) ==
    IF \A k \in 1..Len(s) : s[k] \in cs
    THEN 0
    ELSE CHOOSE k \in 1..Len(s) :
            s[k] \notin cs /\ \A j \in (k + 1)..Len(s) : s[j] \in cs

\* str.strip(): whitespace removed at both ends
Strip(s) == SubSeq(s, FirstNotIn(s, Whitespace), LastNotIn(s, Whitespace))

\* index of the first character of s that is in cs, Len(s)+1 if none
FirstIn(s, cs) ==
    IF \A k \in 1..Len(s) : s[k] \notin cs
    THEN Len(s) + 1
    ELSE CHOOSE k \in 1..Len(s) :
            s[k] \in cs /\ \A j \in 1..(k - 1) : s[j] \notin cs

\* str.split('\n'): always at least one piece, a trailing "\n" gives a last ""
RECURSIVE Split(_)
Split(s) ==
    LET k == FirstIn(s, {"\n"})
    IN  IF k > Len(s)
        THEN <<s>>
        ELSE <<SubSeq(s, 1, k - 1)>> \o Split(SubSeq(s, k + 1, Len(s)))

\* str.splitlines(): no piece for the empty text or after a final line break
RECURSIVE SplitLines(_)
SplitLines(s) ==
    IF s = <<>>
    THEN <<>>
    ELSE LET k == FirstIn(s, LineBreaks)
             w == IF k < Len(s) /\ s[k] = "\r" /\ s[k + 1] = "\n" THEN 2 ELSE 1
         IN  IF k > Len(s)
             THEN <<s>>
             ELSE <<SubSeq(s, 1, k - 1)>>
                  \o SplitLines(SubSeq(s, k + w, Len(s)))

\* "\n".join(lines)
RECURSIVE Join(_)
Join(lines) ==
    IF lines = <<>>
    THEN <<>>
    ELSE IF Len(lines) = 1
         THEN lines[1]
         ELSE lines[1] \o <<"\n">> \o Join(Tail(lines))

\* token in line
Contains(line, token) ==
    \E k \in 0..(Len(line) - Len(token)) :
        SubSeq(line, k + 1, k + Len(token)) = token

(***************************************************************************)
(* Output Sanitizer.                                                       *)
(***************************************************************************)
\* the marker substrings of sanitize_output
MARKERS == {
    <<"U+274C">>,                                                \* cross mark
    <<"U+2717">>,                                                \* ballot x
    <<"U+041F", "U+043E", "U+043C", "U+0438", "U+043B", "U+043A", "U+0430">>,
    <<"E", "r", "r", "o", "r">>,
    <<"T", "r", "a", "c", "e", "b", "a", "c", "k">> }

\* any(token in line for token in (...))
HasMarker(line) == \E token \in MARKERS : Contains(line, token)

\* sanitize_output that strips the text before filtering, not after
sanitize_output_strip_first(output) ==
    IF output = <<>>
    THEN <<>>
    ELSE Join(SelectSeq(SplitLines(Strip(output)), LAMBDA line : ~HasMarker(line)))

sanitize_output(output) ==
    IF output = <<>>
    THEN <<>>
    ELSE Strip(Join(SelectSeq(SplitLines(output), LAMBDA line : ~HasMarker(line))))

(***************************************************************************)
(* Sanitizer harness: sanitize_output applied to a text, then to its own   *)
(* result.  The texts are built from a palette of lines.                   *)
(***************************************************************************)
\* lines the harness builds its texts from
SanLines == {
    <<"3">>,
    <<"7">>,
    <<"E", "r", "r", "o", "r", ":", " ", "b", "a", "d">>,   \* marker "Error"
    <<"e", "r", "r", "o", "r">>,                            \* no marker: lower case
    <<" ", "a", " ">>,                                      \* indented, padded
    <<>>,                                                   \* empty line
    <<" ">>,                                                \* blank line
    <<"x", "U+2717">>,                                      \* marker inside a line
    <<"U+274C", "x">>,
    <<"T", "r", "a", "c", "e", "b", "a", "c", "k">>,
    <<"U+041F", "U+043E", "U+043C", "U+0438", "U+043B", "U+043A", "U+0430">> }

\* line terminators of the harness texts
SanSeparators == { <<"\n">>, <<"\r", "\n">> }

\* lines joined by sep
RECURSIVE JoinWith(_, _)
JoinWith(lines, sep) ==
    IF lines = <<>>
    THEN <<>>
    ELSE IF Len(lines) = 1
         THEN lines[1]
         ELSE lines[1] \o sep \o JoinWith(Tail(lines), sep)

\* the texts given to the sanitizer
SanTexts ==
    { JoinWith(lines, sep) \o final :
        lines \in UNION { [1..k -> SanLines] : k \in 0..MaxLines },
        sep \in SanSeparators,
        final \in { <<>>, <<"\n">> } }

SanitizeCall ==
    /\ san_pc = "input"
    /\ san_result' = sanitize_output(san_input)
    /\ san_pc' = "once"
    /\ UNCHANGED <<san_input, san_again>>
    /\ UNCHANGED coordVars
    /\ UNCHANGED capVars
    /\ UNCHANGED exerciseVars

SanitizeAgain ==
    /\ san_pc = "once"
    /\ san_again' = sanitize_output(san_result)
    /\ san_pc' = "twice"
    /\ UNCHANGED <<san_input, san_result>>
    /\ UNCHANGED coordVars
    /\ UNCHANGED capVars
    /\ UNCHANGED exerciseVars

(***************************************************************************)
(* The directory and the descriptor tables.                                *)
(***************************************************************************)
\* the orchestrator's own file
OWN_FILE == "Laba3_zvit.py"

\* exercise scripts a directory of the model may hold; the last one is in
\* none of the descriptor tables
ExercisePool == { "riven1zada4a1.py", "riven3zada4a1.py", "zavdannya_x.py" }

\* a data file of the directory (not a script)
DATA_FILE == "riven3_test_count.txt"

\* the file names of the model as Python strings: their code points
NameChars ==
    ( "Laba3_zvit.py" :>
        << 76, 97, 98, 97, 51, 95, 122, 118, 105, 116, 46, 112, 121 >> )
    @@
    ( "riven1zada4a1.py" :>
        << 114, 105, 118, 101, 110, 49, 122, 97, 100, 97, 52, 97, 49,
           46, 112, 121 >> )
    @@
    ( "riven3zada4a1.py" :>
        << 114, 105, 118, 101, 110, 51, 122, 97, 100, 97, 52, 97, 49,
           46, 112, 121 >> )
    @@
    ( "zavdannya_x.py" :>
        << 122, 97, 118, 100, 97, 110, 110, 121, 97, 95, 120, 46, 112,
           121 >> )
    @@
    ( "riven3_test_count.txt" :>
        << 114, 105, 118, 101, 110, 51, 95, 116, 101, 115, 116, 95, 99,
           111, 117, 110, 116, 46, 116, 120, 116 >> )
    @@
    ( "Zeta.py" :>
        << 90, 101, 116, 97, 46, 112, 121 >> )
    @@
    ( "riven10.py" :>
        << 114, 105, 118, 101, 110, 49, 48, 46, 112, 121 >> )
    @@
    ( "riven2.py" :>
        << 114, 105, 118, 101, 110, 50, 46, 112, 121 >> )
    @@
    ( "notes.pyc" :>
        << 110, 111, 116, 101, 115, 46, 112, 121, 99 >> )
    @@
    ( "laba3_zvit.py" :>
        << 108, 97, 98, 97, 51, 95, 122, 118, 105, 116, 46, 112, 121 >> )

\* a < b of two Python strings: the first differing code point decides, and
\* a proper prefix comes first
RECURSIVE StrLess(_, _)
StrLess(a, b) ==
    IF b = <<>>
    THEN FALSE
    ELSE IF a = <<>>
         THEN TRUE
         ELSE IF Head(a) # Head(b)
              THEN Head(a) < Head(b)
              ELSE StrLess(Tail(a), Tail(b))

\* position of a name among the names of the model sorted by name
NameRank(name) ==
    Cardinality({ n \in DOMAIN NameChars :
                    StrLess(NameChars[n], NameChars[name]) }) + 1

\* the names matching "*.py": those ending in ".py"
MatchesPy(name) ==
    LET chars == NameChars[name]
    IN  /\ Len(chars) >= 3
        /\ SubSeq(chars, Len(chars) - 2, Len(chars)) = << 46, 112, 121 >>

\* TASK_DESCRIPTIONS, for the names of the model
TASK_DESCRIPTIONS ==
    ( "riven1zada4a1.py" :>
        [ title |-> "Zavdannya 1 (Riven 1): Pidrakhunok unikalnykh symvoliv",
          description |-> "Rozrobka funktsiy dlya pidrakhunku kilkosti unikalnykh symvoliv",
          topic |-> "Funktsiyi, spysky, slovnyky" ] )
    @@
    ( "riven3zada4a1.py" :>
        [ title |-> "Zavdannya 1 (Riven 3): Rekursyvni funktsiyi",
          description |-> "Rozrobka rekursyvnykh funktsiy ta rozuminnya pryntsypu rekursiyi",
          topic |-> "Rekursiya, stek vyzoviv" ] )

\* TEST_INPUTS, for the names of the model: the text given on standard input
TEST_INPUTS ==
    ( "riven1zada4a1.py" :> << "testovyy tekst dlya analizu", "\n" >> )

\* TEST_ARGS, for the names of the model: the command line arguments
TEST_ARGS ==
    ( "riven3zada4a1.py" :> << DATA_FILE >> )

\* the dict of get_task_conclusions, for the names of the model
CONCLUSIONS ==
    ( "riven1zada4a1.py" :>
        "Opanovano robotu z funktsiyamy dlya pidrakhunku unikalnykh elementiv." )
    @@
    ( "riven3zada4a1.py" :>
        "Hlyboko vyvcheno pryntsypy rekursiyi ta yikh praktychne zastosuvannya." )

\* the lookup without a default: nothing for a name that is not in the dict
get_task_conclusions_no_default(task_file) ==
    IF task_file \in DOMAIN CONCLUSIONS
    THEN CONCLUSIONS[task_file]
    ELSE "None"

\* conclusions.get(task_file, default)
get_task_conclusions(task_file) ==
    IF task_file \in DOMAIN CONCLUSIONS
    THEN CONCLUSIONS[task_file]
    ELSE "Zavdannya vykonano uspishno."

\* a sequence holding the elements of the set names, ordered by name
RECURSIVE SortedByName(_)
SortedByName(names) ==
    IF names = {}
    THEN <<>>
    ELSE LET first == CHOOSE n \in names :
                         \A m \in names : NameRank(n) <= NameRank(m)
         IN  <<first>> \o SortedByName(names \ {first})

\* get_python_files without the test that leaves out the orchestrator
get_python_files_with_own(dir) ==
    SortedByName({ file \in dir : MatchesPy(file) })

\* get_python_files: the scripts of the directory but the orchestrator, sorted
get_python_files(dir) ==
    SortedByName({ file \in dir : MatchesPy(file) /\ file # OWN_FILE })

(***************************************************************************)
(* Discovery harness: get_python_files applied to a directory.             *)
(***************************************************************************)
\* the files a directory of the harness may hold
DiscPool == DOMAIN NameChars

\* the call get_python_files()
DiscoverCall ==
    /\ pc = "disc_call"
    /\ py_files' = get_python_files(directory)
    /\ pc' = "disc_returned"
    /\ UNCHANGED <<directory, idx, task_results, captured, run_order,
                   launches, sources, doc, report_writes, console>>
    /\ UNCHANGED harnessVars

(***************************************************************************)
(* Execution Coordinator.                                                  *)
(***************************************************************************)
\* "(Bez vyvodu)", the text recorded for an exercise without usable output
NO_OUTPUT == << "(", "U+0411", "U+0435", "U+0437", " ", "U+0432", "U+0438",
                "U+0432", "U+043E", "U+0434", "U+0443", ")" >>

\* what an exercise may write to standard output before exiting with status 0
Stdouts == {
    <<>>,
    << "3", "\n", "E", "r", "r", "o", "r", ":", " ", "b", "a", "d", "\n",
       "7", "\n" >>,
    << "x", "U+2717", "\n", " ", "\n" >> }

\* what subprocess.run may do: complete with an exit status, time out (with
\* the output written so far), or fail to launch
RunOutcomes ==
    { [kind |-> "completed", returncode |-> 0, stdout |-> t] : t \in Stdouts }
    \cup
    { [kind |-> "completed", returncode |-> 1, stdout |-> t] :
        t \in { <<>>, << "3", "\n" >> } }
    \cup
    { [kind |-> "timeout", returncode |-> 0, stdout |-> << "3", "\n" >>],
      [kind |-> "error", returncode |-> 0, stdout |-> <<>>] }

\* no subprocess has run yet
NO_RUN == [kind |-> "none", returncode |-> 0, stdout |-> <<>>]

\* a function returning a text, returning None, or raising
Return(text) == [raised |-> FALSE, is_none |-> FALSE, text |-> text]
ReturnNone == [raised |-> FALSE, is_none |-> TRUE, text |-> <<>>]
Raise == [raised |-> TRUE, is_none |-> TRUE, text |-> <<>>]

\* capture_output that hands on the output of a failed run
capture_output_partial(run) ==
    IF run.kind = "completed"
    THEN Return(Strip(run.stdout))
    ELSE ReturnNone

\* capture_output without the handler for TimeoutExpired and other errors
capture_output_unguarded(run) ==
    IF run.kind = "completed"
    THEN IF run.returncode = 0 THEN Return(Strip(run.stdout)) ELSE ReturnNone
    ELSE Raise

\* capture_output, given what subprocess.run did
capture_output(run) ==
    IF run.kind = "completed"
    THEN IF run.returncode = 0
         THEN Return(Strip(run.stdout))
         ELSE ReturnNone
    ELSE IF run.kind = "timeout"
         THEN ReturnNone            \* except subprocess.TimeoutExpired
         ELSE ReturnNone            \* except Exception

\* the loop body that records the cleaned text even when it is empty
record_result_raw(output) ==
    IF output.is_none THEN NO_OUTPUT ELSE sanitize_output(output.text)

\* create_report, loop body: the value stored in task_results
record_result(output) ==
    IF output.is_none
    THEN NO_OUTPUT
    ELSE LET cleaned == sanitize_output(output.text)
         IN  IF cleaned # <<>> THEN cleaned ELSE NO_OUTPUT

\* d[key] = value of a dict
Put(d, key, value) ==
    [ k \in (DOMAIN d) \cup {key} |-> IF k = key THEN value ELSE d[k] ]

\* d.get(key)
Get(d, key) ==
    IF key \in DOMAIN d
    THEN [is_none |-> FALSE, text |-> d[key]]
    ELSE [is_none |-> TRUE, text |-> <<>>]

\* capture_output: the command line and the standard input of the subprocess
\* (cmd = [sys.executable, script] + args; input = input_text or "")
capture_command(script_path, input_text, args) ==
    [ cmd |-> << "sys.executable", script_path >>
              \o (IF ~args.is_none /\ args.text # <<>> THEN args.text ELSE <<>>),
      input |-> IF ~input_text.is_none /\ input_text.text # <<>>
                THEN input_text.text
                ELSE <<>> ]

\* a line printed to the console
Printed(msg, name) == [msg |-> msg, name |-> name]

(***************************************************************************)
(* Capture harness: capture_output applied to what subprocess.run did.     *)
(***************************************************************************)
\* largest number of whitespace characters at each end of a harness output
MaxPad == 2

\* the texts between the whitespace of the harness outputs
CapBodies == { <<>>, << "a" >>, << "a", " ", "b" >>, << "3", "\n", "7" >> }

\* runs of whitespace of the harness outputs
CapPads == UNION { [1..n -> {" ", "\n", "\t"}] : n \in 0..MaxPad }

\* what the exercise of the harness may have written
CapOutputs == { l \o body \o r : l \in CapPads, body \in CapBodies, r \in CapPads }

\* what subprocess.run may do in the harness: complete with an exit status,
\* time out (TimeoutExpired), or fail to launch (another exception)
CapRuns ==
    { [kind |-> "completed", returncode |-> rc, stdout |-> t] :
        rc \in {0, 1, 2}, t \in CapOutputs }
    \cup
    { [kind |-> k, returncode |-> 0, stdout |-> t] :
        k \in {"timeout", "error"}, t \in CapOutputs }

CaptureCall ==
    /\ cap_pc = "call"
    /\ cap_result' = capture_output(cap_run)
    /\ cap_pc' = "returned"
    /\ UNCHANGED cap_run
    /\ UNCHANGED coordVars
    /\ UNCHANGED sanVars
    /\ UNCHANGED exerciseVars

(***************************************************************************)
(* Report Assembler: the paragraphs of the document.                       *)
(*   style  the docx style of the paragraph                                *)
(*   part   which statement of create_report added it                      *)
(*   num    the number formatted into its text (0 if none)                 *)
(*   text   its text                                                       *)
(***************************************************************************)
Para(style, part, num, text) ==
    [style |-> style, part |-> part, num |-> num, text |-> text]

\* doc.add_paragraph()
BlankPara == Para("Normal", "blank", 0, <<>>)

\* doc.add_page_break()
PageBreak == Para("Normal", "page_break", 0, <<>>)

\* max_lines of the call add_formatted_code(doc, code_content, max_lines=80)
MAX_LINES == 80

\* a file of n lines "x", the last one ending in "\n" or not
SourceText(n, terminated) ==
    [ k \in 1..(IF terminated THEN 2 * n ELSE 2 * n - 1) |->
        IF k % 2 = 1 THEN "x" ELSE "\n" ]

\* what reading an exercise file may give: its content, or an error
SourceFiles ==
    { [readable |-> TRUE, content |-> c] :
        c \in { << "x", "\n", " ", "\n", "y", "\n" >>,
                SourceText(MAX_LINES, TRUE),
                SourceText(MAX_LINES + 2, FALSE) } }
    \cup { [readable |-> FALSE, content |-> <<>>] }

\* read_file_content that gives an empty text for a file it cannot read
read_file_content_empty(file) ==
    IF file.readable THEN file.content ELSE <<>>

\* read_file_content: the content, or a one-line message when reading fails
read_file_content(file) ==
    IF file.readable
    THEN file.content
    ELSE << "Pomylka chytannya faylu: <e>" >>

\* add_formatted_code: the paragraphs it adds
add_formatted_code(code_text, max_lines) ==
    LET lines == Split(code_text)
        shown == IF Len(lines) < max_lines THEN Len(lines) ELSE max_lines
    IN  [ i \in 1..shown |->
            Para("Normal", "code", 0,
                 IF Strip(lines[i]) # <<>> THEN lines[i] ELSE <<>>) ]
        \o
        ( IF Len(lines) > max_lines
          THEN << Para("Normal", "omitted_notice", Len(lines) - max_lines,
                       << "... (zalyshylos N ryadkiv)" >>) >>
          ELSE <<>> )

\* create_report, "1.3": the paragraphs for output = task_results.get(filename)
output_paragraphs(output) ==
    IF output.is_none
    THEN << Para("Normal", "not_executed", 0,
                 << "U+2298 Skrypt analizuyetsya yak kod bez avtomatychnoho vykonannya" >>) >>
    ELSE LET lines == SelectSeq(Split(output.text), LAMBDA ln : Strip(ln) # <<>>)
         IN  [ i \in 1..Len(lines) |-> Para("Normal", "output", 0, lines[i]) ]

\* the position of filename in py_files
FilePosition(filename) == CHOOSE k \in 1..Len(py_files) : py_files[k] = filename

\* the lookup that takes the result of the exercise launched at the
\* section's position, not the result stored under the section's name
task_output_by_position(results, filename) ==
    Get(results, run_order[FilePosition(filename)])

\* create_report, "1.3": output = task_results.get(filename)
task_output(results, filename) == Get(results, filename)

\* the heading numbered by a count of the sources read so far in the process
\* instead of task_num
task_heading_counting(task_num, filename) ==
    LET number == Cardinality(DOMAIN sources) + 1
    IN  IF filename \in DOMAIN TASK_DESCRIPTIONS
        THEN << Para("Heading 1", "task_heading", number,
                     << TASK_DESCRIPTIONS[filename].title >>) >>
        ELSE << Para("Heading 1", "task_heading", number, << filename >>) >>

\* the heading of a section for a file of TASK_DESCRIPTIONS only
task_heading_known_only(task_num, filename) ==
    IF filename \in DOMAIN TASK_DESCRIPTIONS
    THEN << Para("Heading 1", "task_heading", task_num,
                 << TASK_DESCRIPTIONS[filename].title >>) >>
    ELSE <<>>

\* create_report, section loop: the heading of a section
task_heading(task_num, filename) ==
    IF filename \in DOMAIN TASK_DESCRIPTIONS
    THEN << Para("Heading 1", "task_heading", task_num,
                 << TASK_DESCRIPTIONS[filename].title >>) >>
    ELSE << Para("Heading 1", "task_heading", task_num, << filename >>) >>

\* create_report, section loop: task_info
task_info(filename) ==
    IF filename \in DOMAIN TASK_DESCRIPTIONS
    THEN TASK_DESCRIPTIONS[filename]
    ELSE [ title |-> "", description |-> "Vykonannya zavdannya", topic |-> "Python" ]

\* create_report, section loop: the paragraphs one iteration adds
task_section(task_num, filename, file, results, n_files) ==
    task_heading(task_num, filename)
    \o << Para("Heading 2", "overview_heading", 0, << "1.1 Korotkyy ohlyad" >>),
          Para("Normal", "overview", 0,
               << task_info(filename).description, "\n", "Tema: ",
                  task_info(filename).topic >>),
          BlankPara,
          Para("Heading 2", "code_heading", 0, << "1.2 Vykhidnyy kod:" >>) >>
    \o add_formatted_code(read_file_content(file), MAX_LINES)
    \o << BlankPara,
          Para("Heading 2", "output_heading", 0, << "1.3 Rezultat vykonannya:" >>) >>
    \o output_paragraphs(task_output(results, filename))
    \o << BlankPara,
          Para("Heading 2", "conclusion_heading", 0, << "1.4 Vysnovky:" >>),
          Para("Normal", "conclusion", 0, << get_task_conclusions(filename) >>) >>
    \o ( IF task_num < n_files THEN << PageBreak >> ELSE <<>> )

\* create_report: the entries of the table of contents
toc_entries(files) ==
    LET entries == [ i \in 1..Len(files) |-> [i |-> i, filename |-> files[i]] ]
        known == SelectSeq(entries,
                           LAMBDA e : e.filename \in DOMAIN TASK_DESCRIPTIONS)
    IN  [ k \in 1..Len(known) |->
            Para("List Bullet", "toc_entry", known[k].i,
                 << TASK_DESCRIPTIONS[known[k].filename].title >>) ]

\* create_report: title page, table of contents, theory, heading of part 2
front_matter(files) ==
    << Para("Title", "title", 0, << "ZVIT" >>),
       Para("Normal", "subtitle", 0, << "z laboratornoyi roboty No3" >>),
       Para("Normal", "theme", 0, << "Tema: Funktsiyi, zovnishni moduli ta fayly u Python" >>),
       BlankPara,
       Para("Normal", "subject", 0, << "Dystsyplina: Mashynne navchannya" >>),
       BlankPara,
       BlankPara,
       Para("Normal", "info", 0, << "Vykonav: aspirant", "\n", "Napryamok: 051 Ekonomika",
                                    "\n", "Data: <dd.mm.YYYY>" >>),
       PageBreak,
       Para("Heading 1", "toc_heading", 0, << "ZMIST" >>) >>
    \o toc_entries(files)
    \o << PageBreak,
          Para("Heading 1", "theory_heading", 0, << "1. TEORETYCHNI VIDOMOSTI" >>),
          Para("Normal", "theory", 0, << "theory_text" >>),
          PageBreak,
          Para("Heading 1", "results_heading", 0,
               << "2. REZULTATY VYKONANNYA ZAVDAN" >>) >>

\* create_report: general conclusion and the answers to the control questions
closing_matter ==
    << PageBreak,
       Para("Heading 1", "closing_heading", 0, << "3. VYSNOVKY" >>),
       Para("Normal", "general_conclusion", 0, << "general_conclusion" >>),
       Para("Heading 1", "answers_heading", 0,
            << "4. VIDPOVIDI NA KONTROLNI ZAPYTANNYA" >>),
       Para("Heading 2", "q1_heading", 0, << "4.1 Opys funktsiy u Python. Rekursiya." >>),
       Para("Normal", "q1_answer", 0, << "q1_answer" >>),
       Para("Heading 2", "q2_heading", 0, << "4.2 Ponyattya zovnishnikh moduliv" >>),
       Para("Normal", "q2_answer", 0, << "q2_answer" >>),
       Para("Heading 2", "q3_heading", 0, << "4.3 Fayly ta metody roboty iz nymy." >>),
       Para("Normal", "q3_answer", 0, << "q3_answer" >>) >>

(***************************************************************************)
(* The exercises riven2zada4a1.py (factorial) and riven2zada4a2.py         *)
(* (Fibonacci): their functions, and a harness that calls them.            *)
(***************************************************************************)
\* largest argument of a call of the harness
MaxArg == 8

\* largest number of calls that share one memo dict
MaxCalls == 3

\* the arguments of the harness: a negative one and 0..MaxArg
Arguments == (-1)..MaxArg

\* a function returning a value, or raising ValueError
Value(v) == [raised |-> FALSE, value |-> v]
ValueError == [raised |-> TRUE, value |-> 0]

\* factorial_recursive that files the result of n under n - 1
RECURSIVE factorial_recursive_misfiled(_, _)
factorial_recursive_misfiled(n, memo) ==
    IF n < 0
    THEN [result |-> ValueError, memo |-> memo]
    ELSE IF n \in DOMAIN memo
         THEN [result |-> Value(memo[n]), memo |-> memo]
         ELSE IF n = 0 \/ n = 1
              THEN [result |-> Value(1), memo |-> memo]
              ELSE LET inner == factorial_recursive_misfiled(n - 1, memo)
                       result == n * inner.result.value
                   IN  [result |-> Value(result),
                        memo |-> Put(inner.memo, n - 1, result)]

\* factorial_recursive(n, memo): what it returns or raises, and the memo dict
\* after the call
RECURSIVE factorial_recursive(_, _)
factorial_recursive(n, memo) ==
    IF n < 0
    THEN [result |-> ValueError, memo |-> memo]
    ELSE IF n \in DOMAIN memo
         THEN [result |-> Value(memo[n]), memo |-> memo]
         ELSE IF n = 0 \/ n = 1
              THEN [result |-> Value(1), memo |-> memo]
              ELSE LET inner == factorial_recursive(n - 1, memo)
                       result == n * inner.result.value
                   IN  [result |-> Value(result),
                        memo |-> Put(inner.memo, n, result)]

\* factorial_iterative: the loop "for i in range(2, n + 1): result *= i"
RECURSIVE factorial_loop(_, _, _)
factorial_loop(i, n, result) ==
    IF i > n THEN result ELSE factorial_loop(i + 1, n, result * i)

\* factorial_iterative(n)
factorial_iterative(n) ==
    IF n < 0 THEN ValueError ELSE Value(factorial_loop(2, n, 1))

\* d.get(key, 0) + 1 stored under key
Count(d, key) == Put(d, key, (IF key \in DOMAIN d THEN d[key] ELSE 0) + 1)

\* fibonacci_recursive(n, call_count): the value and the call counts after it
RECURSIVE fibonacci_recursive(_, _)
fibonacci_recursive(n, call_count) ==
    IF n < 0
    THEN [result |-> ValueError, call_count |-> call_count]
    ELSE LET counted == Count(call_count, n)
         IN  IF n = 0
             THEN [result |-> Value(0), call_count |-> counted]
             ELSE IF n = 1
                  THEN [result |-> Value(1), call_count |-> counted]
                  ELSE LET left == fibonacci_recursive(n - 1, counted)
                           right == fibonacci_recursive(n - 2, left.call_count)
                       IN  [result |-> Value(left.result.value + right.result.value),
                            call_count |-> right.call_count]

\* fibonacci_memoized that stores the value of n - 1 under n
RECURSIVE fibonacci_memoized_stale(_, _)
fibonacci_memoized_stale(n, memo) ==
    IF n < 0
    THEN [result |-> ValueError, memo |-> memo]
    ELSE IF n \in DOMAIN memo
         THEN [result |-> Value(memo[n]), memo |-> memo]
         ELSE IF n = 0
              THEN [result |-> Value(0), memo |-> memo]
              ELSE IF n = 1
                   THEN [result |-> Value(1), memo |-> memo]
                   ELSE LET left == fibonacci_memoized_stale(n - 1, memo)
                            right == fibonacci_memoized_stale(n - 2, left.memo)
                            sum == left.result.value + right.result.value
                        IN  [result |-> Value(sum),
                             memo |-> Put(right.memo, n, left.result.value)]

\* fibonacci_memoized(n, memo): the value and the memo dict after the call
RECURSIVE fibonacci_memoized(_, _)
fibonacci_memoized(n, memo) ==
    IF n < 0
    THEN [result |-> ValueError, memo |-> memo]
    ELSE IF n \in DOMAIN memo
         THEN [result |-> Value(memo[n]), memo |-> memo]
         ELSE IF n = 0
              THEN [result |-> Value(0), memo |-> memo]
              ELSE IF n = 1
                   THEN [result |-> Value(1), memo |-> memo]
                   ELSE LET left == fibonacci_memoized(n - 1, memo)
                            right == fibonacci_memoized(n - 2, left.memo)
                            sum == left.result.value + right.result.value
                        IN  [result |-> Value(sum),
                             memo |-> Put(right.memo, n, sum)]

\* fibonacci_iterative: the loop over range(2, n + 1)
RECURSIVE fibonacci_loop(_, _, _, _)
fibonacci_loop(i, n, prev2, prev1) ==
    IF i > n THEN prev1 ELSE fibonacci_loop(i + 1, n, prev1, prev1 + prev2)

\* fibonacci_iterative(n)
fibonacci_iterative(n) ==
    IF n < 0
    THEN ValueError
    ELSE IF n = 0
         THEN Value(0)
         ELSE IF n = 1 THEN Value(1) ELSE Value(fibonacci_loop(2, n, 0, 1))

\* fibonacci_generator: the loop over range(max_n + 1) and what it yields
RECURSIVE generator_loop(_, _, _, _, _)
generator_loop(i, max_n, a, b, yielded) ==
    IF i > max_n
    THEN yielded
    ELSE IF i = 0
         THEN generator_loop(i + 1, max_n, a, b, Append(yielded, 0))
         ELSE IF i = 1
              THEN generator_loop(i + 1, max_n, a, b, Append(yielded, 1))
              ELSE generator_loop(i + 1, max_n, b, a + b, Append(yielded, a + b))

\* list(fibonacci_generator(max_n)): the values it yields, or the error
fibonacci_generator(max_n) ==
    IF max_n < 0
    THEN [raised |-> TRUE, value |-> <<>>]
    ELSE [raised |-> FALSE, value |-> generator_loop(0, max_n, 0, 1, <<>>)]

\* a dict without keys
EmptyMemo == [ k \in {} |-> 0 ]

\* one more call factorial_recursive(n, memo) on the shared memo dict, and
\* factorial_iterative(n) next to it
FactorialCall ==
    /\ Len(fact_calls) < MaxCalls
    /\ \E n \in Arguments :
         LET call == factorial_recursive(n, fact_memo)
         IN  /\ fact_memo' = call.memo
             /\ fact_calls' = Append(fact_calls,
                                     [ n |-> n,
                                       recursive |-> call.result,
                                       iterative |-> factorial_iterative(n) ])
    /\ UNCHANGED <<fib_memo, fib_calls>>
    /\ UNCHANGED rotVars
    /\ UNCHANGED revVars
    /\ UNCHANGED statVars
    /\ UNCHANGED traceVars
    /\ UNCHANGED coordVars
    /\ UNCHANGED sanVars
    /\ UNCHANGED capVars

\* one more round of calls of the Fibonacci functions with the argument n;
\* fibonacci_memoized is called with a fresh memo dict and with the shared one
FibonacciCall ==
    /\ Len(fib_calls) < MaxCalls
    /\ \E n \in Arguments :
         LET shared == fibonacci_memoized(n, fib_memo)
         IN  /\ fib_memo' = shared.memo
             /\ fib_calls' = Append(fib_calls,
                                    [ n |-> n,
                                      recursive |-> fibonacci_recursive(n, EmptyMemo).result,
                                      memoized |-> fibonacci_memoized(n, EmptyMemo).result,
                                      shared |-> shared.result,
                                      iterative |-> fibonacci_iterative(n),
                                      generated |-> fibonacci_generator(n) ])
    /\ UNCHANGED <<fact_memo, fact_calls>>
    /\ UNCHANGED rotVars
    /\ UNCHANGED revVars
    /\ UNCHANGED statVars
    /\ UNCHANGED traceVars
    /\ UNCHANGED coordVars
    /\ UNCHANGED sanVars
    /\ UNCHANGED capVars

(***************************************************************************)
(* The exercise riven1zada4a4.py (cyclic shift of a list).  A call gives   *)
(* the list it returns, whether that list is the argument object itself,   *)
(* and the content of the argument list after the call.                    *)
(***************************************************************************)
\* largest length of a list of the harness
MaxListLen == 3

\* largest step of a call, in either direction
MaxStep == 4

\* largest number of repetitions of cyclic_shift_repeated
MaxTimes == 3

\* the lists of the harness
RotLists == UNION { [1..n -> {1, 2, 3}] : n \in 0..MaxListLen }

\* what a call returns: a list, whether it is the argument list itself, and
\* the argument list after the call
Returned(list, same_object, lst_after) ==
    [list |-> list, same_object |-> same_object, lst_after |-> lst_after]

\* rotate_list_right that shifts the argument list in place and returns it
rotate_list_right_inplace(lst, step) ==
    IF lst = <<>>
    THEN Returned(lst, TRUE, lst)
    ELSE LET s == step % Len(lst)
             rotated == SubSeq(lst, Len(lst) - s + 1, Len(lst))
                        \o SubSeq(lst, 1, Len(lst) - s)
         IN  Returned(rotated, TRUE, rotated)

\* rotate_list_right(lst, step)
rotate_list_right(lst, step) ==
    IF lst = <<>>
    THEN Returned(lst, TRUE, lst)
    ELSE LET s == step % Len(lst)
         IN  IF s = 0
             THEN Returned(lst, FALSE, lst)              \* lst.copy()
             ELSE Returned(SubSeq(lst, Len(lst) - s + 1, Len(lst))   \* lst[-step:]
                           \o SubSeq(lst, 1, Len(lst) - s),          \* lst[:-step]
                           FALSE, lst)

\* rotate_list_left(lst, step)
rotate_list_left(lst, step) ==
    IF lst = <<>>
    THEN Returned(lst, TRUE, lst)
    ELSE LET s == step % Len(lst)
         IN  IF s = 0
             THEN Returned(lst, FALSE, lst)              \* lst.copy()
             ELSE Returned(SubSeq(lst, s + 1, Len(lst))  \* lst[step:]
                           \o SubSeq(lst, 1, s),         \* lst[:step]
                           FALSE, lst)

\* cyclic_shift_repeated: the loop "for i in range(times)"
RECURSIVE shift_loop(_, _, _, _, _, _)
shift_loop(i, times, step, direction, current, history) ==
    IF i >= times
    THEN [current |-> current, history |-> history]
    ELSE LET rotated == IF direction = "right"
                        THEN rotate_list_right(current, step).list
                        ELSE rotate_list_left(current, step).list
         IN  shift_loop(i + 1, times, step, direction, rotated,
                        Append(history, rotated))

\* cyclic_shift_repeated that leaves the first state out of the history
cyclic_shift_repeated_no_start(lst, step, times, direction) ==
    IF lst = <<>>
    THEN [raised |-> FALSE, final |-> lst, history |-> << lst >>, lst_after |-> lst]
    ELSE IF times < 0 \/ direction \notin {"right", "left"}
         THEN [raised |-> TRUE, final |-> <<>>, history |-> <<>>, lst_after |-> lst]
         ELSE LET done == shift_loop(0, times, step, direction, lst, <<>>)
              IN  [raised |-> FALSE, final |-> done.current,
                   history |-> done.history, lst_after |-> lst]

\* cyclic_shift_repeated(lst, step, times, direction): the pair it returns,
\* or ValueError, and the argument list after the call
cyclic_shift_repeated(lst, step, times, direction) ==
    IF lst = <<>>
    THEN [raised |-> FALSE, final |-> lst, history |-> << lst >>, lst_after |-> lst]
    ELSE IF times < 0 \/ direction \notin {"right", "left"}
         THEN [raised |-> TRUE, final |-> <<>>, history |-> <<>>, lst_after |-> lst]
         ELSE LET done == shift_loop(0, times, step, direction, lst, << lst >>)
              IN  [raised |-> FALSE, final |-> done.current,
                   history |-> done.history, lst_after |-> lst]

\* a call rotate_list_right(lst, step), then rotate_list_left on its result
RotateCall ==
    /\ rot_calls = <<>>
    /\ \E lst \in RotLists, step \in (-MaxStep)..MaxStep :
         LET right == rotate_list_right(lst, step)
         IN  rot_calls' = << [ fn |-> "rotate", lst |-> lst, step |-> step,
                               right |-> right,
                               back |-> rotate_list_left(right.list, step) ] >>
    /\ UNCHANGED <<fact_memo, fact_calls, fib_memo, fib_calls>>
    /\ UNCHANGED revVars
    /\ UNCHANGED statVars
    /\ UNCHANGED traceVars
    /\ UNCHANGED coordVars
    /\ UNCHANGED sanVars
    /\ UNCHANGED capVars

\* a call cyclic_shift_repeated(lst, step, times, direction, show_steps=False)
ShiftCall ==
    /\ rot_calls = <<>>
    /\ \E lst \in RotLists, step \in (-MaxStep)..MaxStep, times \in (-1)..MaxTimes,
          direction \in {"right", "left", "up"} :
         rot_calls' = << [ fn |-> "shift", lst |-> lst, step |-> step,
                           times |-> times, direction |-> direction,
                           shifted |-> cyclic_shift_repeated(lst, step, times,
                                                             direction) ] >>
    /\ UNCHANGED <<fact_memo, fact_calls, fib_memo, fib_calls>>
    /\ UNCHANGED revVars
    /\ UNCHANGED statVars
    /\ UNCHANGED traceVars
    /\ UNCHANGED coordVars
    /\ UNCHANGED sanVars
    /\ UNCHANGED capVars

(***************************************************************************)
(* The exercise riven2zada4a4.py (a sequence ending with 0, reversed).     *)
(* input() returns the next line the user enters, or raises EOFError when  *)
(* there is none; print writes a piece of text and its end.                *)
(***************************************************************************)
\* largest number of lines the user enters
MaxInput == 4

\* the decimal digits
Digits == << "0", "1", "2", "3", "4", "5", "6", "7", "8", "9" >>

\* the value of a decimal digit
DigitValue(c) == (CHOOSE k \in 1..Len(Digits) : Digits[k] = c) - 1

\* the value of a text of digits and underscores
RECURSIVE DecimalValue(_, _)
DecimalValue(s, acc) ==
    IF s = <<>>
    THEN acc
    ELSE IF Head(s) = "_"
         THEN DecimalValue(Tail(s), acc)
         ELSE DecimalValue(Tail(s), 10 * acc + DigitValue(Head(s)))

\* int(text): surrounding whitespace, an optional sign, then digits that
\* single underscores may separate; ValueError for anything else
int(text) ==
    LET s == Strip(text)
        signed == s # <<>> /\ s[1] \in {"+", "-"}
        body == IF signed THEN Tail(s) ELSE s
        isDigit(c) == \E k \in 1..Len(Digits) : Digits[k] = c
        wellFormed ==
            /\ body # <<>>
            /\ isDigit(body[1])
            /\ isDigit(body[Len(body)])
            /\ \A k \in 1..Len(body) : isDigit(body[k]) \/ body[k] = "_"
            /\ \A k \in 1..(Len(body) - 1) : ~(body[k] = "_" /\ body[k + 1] = "_")
    IN  IF ~wellFormed
        THEN ValueError
        ELSE IF signed /\ s[1] = "-"
             THEN Value(0 - DecimalValue(body, 0))
             ELSE Value(DecimalValue(body, 0))

\* str(num) of a natural number
RECURSIVE str_digits(_)
str_digits(num) ==
    IF num < 10
    THEN << Digits[num + 1] >>
    ELSE str_digits(num \div 10) \o << Digits[(num % 10) + 1] >>

\* str(num)
str(num) == IF num < 0 THEN << "-" >> \o str_digits(0 - num) ELSE str_digits(num)

\* numbers[::-1]
Reversed(numbers) == [ k \in 1..Len(numbers) |-> numbers[Len(numbers) - k + 1] ]

\* str.split(): the pieces between runs of whitespace, none of them empty
RECURSIVE SplitWords(_)
SplitWords(s) ==
    LET start == FirstNotIn(s, Whitespace)
    IN  IF start > Len(s)
        THEN <<>>
        ELSE LET rest == SubSeq(s, start, Len(s))
                 stop == FirstIn(rest, Whitespace)
             IN  << SubSeq(rest, 1, stop - 1) >>
                 \o SplitWords(SubSeq(rest, stop, Len(rest)))

\* the error message for a line that is not an integer
INTEGER_EXPECTED == << " ", " ", "U+2717", " ", "U+041F", "U+043E", "U+043C",
                       "U+0438", "U+043B", "U+043A", "U+0430", ":", " ",
                       "U+0432", "U+0432", "U+0435", "U+0434", "U+0456",
                       "U+0442", "U+044C", " ", "U+0446", "U+0456", "U+043B",
                       "U+0435", " ", "U+0447", "U+0438", "U+0441", "U+043B",
                       "U+043E" >>

\* the prompt of read_and_reverse_recursive_v2
PROMPT_V2 == << " ", " ", "U+0412", "U+0432", "U+0435", "U+0434", "U+0456",
                "U+0442", "U+044C", " ", "U+0447", "U+0438", "U+0441",
                "U+043B", "U+043E", " ", "(", "U+0430", "U+0431", "U+043E",
                " ", "0", " ", "U+0434", "U+043B", "U+044F", " ", "U+0437",
                "U+0430", "U+0432", "U+0435", "U+0440", "U+0448", "U+0435",
                "U+043D", "U+043D", "U+044F", ")", ":", " " >>

\* the prompt of the numbered readers, before the number
PROMPT_NUMBER == << " ", " ", "U+0412", "U+0432", "U+0435", "U+0434",
                    "U+0456", "U+0442", "U+044C", " ", "U+0447", "U+0438",
                    "U+0441", "U+043B", "U+043E", " ", "#" >>

\* the prompt of the numbered readers, after the number
PROMPT_OR_ZERO == << " ", "(", "U+0430", "U+0431", "U+043E", " ", "0", " ",
                     "U+0434", "U+043B", "U+044F", " ", "U+0437", "U+0430",
                     "U+0432", "U+0435", "U+0440", "U+0448", "U+0435",
                     "U+043D", "U+043D", "U+044F", ")", ":", " " >>

\* the header read_and_reverse_recursive prints when 0 is entered
REVERSED_HEADER == << "\n", " ", " ", "U+041F", "U+043E", "U+0441", "U+043B",
                      "U+0456", "U+0434", "U+043E", "U+0432", "U+043D",
                      "U+0456", "U+0441", "U+0442", "U+044C", " ", "U+0443",
                      " ", "U+0437", "U+0432", "U+043E", "U+0440", "U+043E",
                      "U+0442", "U+043D", "U+043E", "U+043C", "U+0443", " ",
                      "U+043F", "U+043E", "U+0440", "U+044F", "U+0434",
                      "U+043A", "U+0443", ":" >>

\* the first line read_and_reverse_recursive_v2 prints
ENTER_SEQUENCE == << " ", " ", "U+0412", "U+0432", "U+0435", "U+0434",
                     "U+0456", "U+0442", "U+044C", " ", "U+043F", "U+043E",
                     "U+0441", "U+043B", "U+0456", "U+0434", "U+043E",
                     "U+0432", "U+043D", "U+0456", "U+0441", "U+0442",
                     "U+044C", " ", "U+0447", "U+0438", "U+0441", "U+0435",
                     "U+043B", " ", "(", "U+0437", "U+0430", "U+0432",
                     "U+0435", "U+0440", "U+0448", "U+0456", "U+0442",
                     "U+044C", " ", "0", ")", ":" >>

\* the last line read_and_reverse_recursive_v2 prints
LIST_FINISHED == << " ", " ", "(", "U+0441", "U+043F", "U+0438", "U+0441",
                    "U+043E", "U+043A", " ", "U+0437", "U+0430", "U+0432",
                    "U+0435", "U+0440", "U+0448", "U+0435", "U+043D",
                    "U+043E", ")" >>

\* print(text, end=end)
Piece(text, end) == [text |-> text, end |-> end]

\* print(f"  {num}")
NumberLine(num) == Piece(<< " ", " " >> \o str(num), << "\n" >>)

\* print(f"  Введіть число #{k} (або 0 для завершення): ", end="")
NumberedPrompt(k) == Piece(PROMPT_NUMBER \o str(k) \o PROMPT_OR_ZERO, <<>>)

\* the lines the user may enter: integers, a zero, a zero written twice, a
\* padded integer and a word
RevLines == {
    << "1" >>, << "-", "3" >>, << "0" >>, << "0", "0" >>,
    << " ", "4", " " >>, << "x" >> }

\* the lines of Test 5: 5 0 3 0 1 0
Test5Lines == << << "5" >>, << "0" >>, << "3" >>, << "0" >>, << "1" >>, << "0" >> >>

\* what the user may enter
RevInputs ==
    UNION { [1..k -> RevLines] : k \in 0..MaxInput } \cup { Test5Lines }

\* what a reader gives: whether EOFError ended it, the value it returns and
\* what it printed
Read(raised, value, out) == [raised |-> raised, value |-> value, out |-> out]

\* read_and_reverse_recursive(numbers, depth) with the lines from pos on
RECURSIVE read_and_reverse_recursive(_, _, _, _)
read_and_reverse_recursive(lines, pos, numbers, out) ==
    LET prompted == Append(out, NumberedPrompt(Len(numbers) + 1))
    IN  IF pos >= Len(lines)
        THEN Read(TRUE, <<>>, prompted)                     \* input(): EOFError
        ELSE LET num == int(Strip(lines[pos + 1]))
             IN  IF num.raised
                 THEN read_and_reverse_recursive(lines, pos + 1, numbers,
                          Append(prompted, Piece(INTEGER_EXPECTED, << "\n" >>)))
                 ELSE IF num.value = 0
                      THEN Read(FALSE, <<>>,
                                Append(prompted, Piece(REVERSED_HEADER, << "\n" >>)))
                      ELSE read_and_reverse_recursive(lines, pos + 1,
                               Append(numbers, num.value), prompted)

\* read_and_reverse_iterative(): the loop "while True" with the lines from
\* pos on
RECURSIVE iterative_loop(_, _, _, _, _)
iterative_loop(lines, pos, numbers, counter, out) ==
    LET prompted == Append(out, NumberedPrompt(counter))
    IN  IF pos >= Len(lines)
        THEN Read(TRUE, <<>>, prompted)                     \* input(): EOFError
        ELSE LET num == int(Strip(lines[pos + 1]))
             IN  IF num.raised
                 THEN iterative_loop(lines, pos + 1, numbers, counter,
                          Append(prompted, Piece(INTEGER_EXPECTED, << "\n" >>)))
                 ELSE IF num.value = 0
                      THEN Read(FALSE, Reversed(numbers), prompted)
                      ELSE iterative_loop(lines, pos + 1,
                               Append(numbers, num.value), counter + 1, prompted)

\* read_and_reverse_iterative()
read_and_reverse_iterative(lines) == iterative_loop(lines, 0, <<>>, 1, <<>>)

\* reverse_sequence_from_string: the loop "for token in input_str.split()"
RECURSIVE tokens_loop(_, _)
tokens_loop(tokens, numbers) ==
    IF tokens = <<>>
    THEN numbers
    ELSE LET num == int(Head(tokens))
         IN  IF num.raised
             THEN tokens_loop(Tail(tokens), numbers)        \* continue
             ELSE IF num.value = 0
                  THEN numbers                              \* break
                  ELSE tokens_loop(Tail(tokens), Append(numbers, num.value))

\* reverse_sequence_from_string(input_str)
reverse_sequence_from_string(input_str) ==
    Reversed(tokens_loop(SplitWords(input_str), <<>>))

\* a frame of _read_and_print that waits for the call it made: after a
\* number it prints the number when the call returns, after a line that is
\* not an integer it only returns
Frame(prints, num) == [prints |-> prints, num |-> num]

\* read_and_reverse_recursive_v2() is called; the other readers are given
\* the same lines, reverse_sequence_from_string the lines as one string
ReverseStart ==
    /\ rev_pc = "off"
    /\ \E lines \in RevInputs :
         /\ rev_lines' = lines
         /\ rev_results' =
              [ recursive |-> read_and_reverse_recursive(lines, 0, <<>>, <<>>),
                iterative |-> read_and_reverse_iterative(lines),
                from_string |-> reverse_sequence_from_string(
                                    JoinWith(lines, << " " >>)) ]
    /\ rev_read' = 0
    /\ rev_stack' = <<>>
    /\ rev_out' = << Piece(ENTER_SEQUENCE, << "\n" >>) >>
    /\ rev_pc' = "read"
    /\ UNCHANGED <<fact_memo, fact_calls, fib_memo, fib_calls>>
    /\ UNCHANGED rotVars
    /\ UNCHANGED statVars
    /\ UNCHANGED traceVars
    /\ UNCHANGED coordVars
    /\ UNCHANGED sanVars
    /\ UNCHANGED capVars

\* _read_and_print that prints the number before it reads the rest
ReadAndPrint_printing_first ==
    /\ rev_pc = "read"
    /\ rev_read < Len(rev_lines)
    /\ LET prompted == Append(rev_out, Piece(PROMPT_V2, <<>>))
           num == int(Strip(rev_lines[rev_read + 1]))
       IN  /\ rev_read' = rev_read + 1
           /\ IF num.raised
              THEN /\ rev_out' = Append(prompted,
                                        Piece(INTEGER_EXPECTED, << "\n" >>))
                   /\ rev_stack' = Append(rev_stack, Frame(FALSE, 0))
                   /\ rev_pc' = "read"
              ELSE IF num.value = 0
                   THEN /\ rev_out' = prompted
                        /\ rev_stack' = rev_stack
                        /\ rev_pc' = "unwind"
                   ELSE /\ rev_out' = Append(prompted, NumberLine(num.value))
                        /\ rev_stack' = Append(rev_stack, Frame(FALSE, num.value))
                        /\ rev_pc' = "read"
    /\ UNCHANGED <<rev_lines, rev_results>>
    /\ UNCHANGED <<fact_memo, fact_calls, fib_memo, fib_calls>>
    /\ UNCHANGED rotVars
    /\ UNCHANGED statVars
    /\ UNCHANGED traceVars
    /\ UNCHANGED coordVars
    /\ UNCHANGED sanVars
    /\ UNCHANGED capVars

\* _read_and_print() up to the call it makes or its return at 0: the prompt,
\* input(), and the message for a line that is not an integer
ReadAndPrint ==
    /\ rev_pc = "read"
    /\ rev_read < Len(rev_lines)
    /\ LET prompted == Append(rev_out, Piece(PROMPT_V2, <<>>))
           num == int(Strip(rev_lines[rev_read + 1]))
       IN  /\ rev_read' = rev_read + 1
           /\ IF num.raised
              THEN /\ rev_out' = Append(prompted,
                                        Piece(INTEGER_EXPECTED, << "\n" >>))
                   /\ rev_stack' = Append(rev_stack, Frame(FALSE, 0))
                   /\ rev_pc' = "read"
              ELSE IF num.value = 0
                   THEN /\ rev_out' = prompted
                        /\ rev_stack' = rev_stack
                        /\ rev_pc' = "unwind"
                   ELSE /\ rev_out' = prompted
                        /\ rev_stack' = Append(rev_stack, Frame(TRUE, num.value))
                        /\ rev_pc' = "read"
    /\ UNCHANGED <<rev_lines, rev_results>>
    /\ UNCHANGED <<fact_memo, fact_calls, fib_memo, fib_calls>>
    /\ UNCHANGED rotVars
    /\ UNCHANGED statVars
    /\ UNCHANGED traceVars
    /\ UNCHANGED coordVars
    /\ UNCHANGED sanVars
    /\ UNCHANGED capVars

\* input() finds no line: EOFError leaves every frame without printing
InputEnds ==
    /\ rev_pc = "read"
    /\ rev_read >= Len(rev_lines)
    /\ rev_out' = Append(rev_out, Piece(PROMPT_V2, <<>>))
    /\ rev_stack' = <<>>
    /\ rev_pc' = "eof"
    /\ UNCHANGED <<rev_lines, rev_read, rev_results>>
    /\ UNCHANGED <<fact_memo, fact_calls, fib_memo, fib_calls>>
    /\ UNCHANGED rotVars
    /\ UNCHANGED statVars
    /\ UNCHANGED traceVars
    /\ UNCHANGED coordVars
    /\ UNCHANGED sanVars
    /\ UNCHANGED capVars

\* the innermost waiting frame of _read_and_print gets control back, prints
\* its number if it read one, and returns
ReturnAndPrint ==
    /\ rev_pc = "unwind"
    /\ rev_stack # <<>>
    /\ LET frame == rev_stack[Len(rev_stack)]
       IN  rev_out' = IF frame.prints
                      THEN Append(rev_out, NumberLine(frame.num))
                      ELSE rev_out
    /\ rev_stack' = SubSeq(rev_stack, 1, Len(rev_stack) - 1)
    /\ UNCHANGED <<rev_pc, rev_lines, rev_read, rev_results>>
    /\ UNCHANGED <<fact_memo, fact_calls, fib_memo, fib_calls>>
    /\ UNCHANGED rotVars
    /\ UNCHANGED statVars
    /\ UNCHANGED traceVars
    /\ UNCHANGED coordVars
    /\ UNCHANGED sanVars
    /\ UNCHANGED capVars

\* the outermost _read_and_print has returned: the closing line
ReverseFinish ==
    /\ rev_pc = "unwind"
    /\ rev_stack = <<>>
    /\ rev_out' = Append(rev_out, Piece(LIST_FINISHED, << "\n" >>))
    /\ rev_pc' = "done"
    /\ UNCHANGED <<rev_stack, rev_lines, rev_read, rev_results>>
    /\ UNCHANGED <<fact_memo, fact_calls, fib_memo, fib_calls>>
    /\ UNCHANGED rotVars
    /\ UNCHANGED statVars
    /\ UNCHANGED traceVars
    /\ UNCHANGED coordVars
    /\ UNCHANGED sanVars
    /\ UNCHANGED capVars

(***************************************************************************)
(* The exercise riven3zada4a1.py (lines, words and characters of a file).  *)
(* A file is the text it holds, or NoFile where the path does not exist.   *)
(***************************************************************************)
\* largest number of characters of a file of the harness
MaxChars == 4

\* the path names no file
NoFile == [exists |-> FALSE, content |-> <<>>]

\* the path names a file with this content
TextFile(content) == [exists |-> TRUE, content |-> content]

\* the characters of the files of the harness
FileChars == {"a", " ", "\n", "\r"}

\* the files of the harness
StatFiles ==
    { NoFile } \cup
    { TextFile(content) :
        content \in UNION { [1..n -> FileChars] : n \in 0..MaxChars } }

\* open(path, "r"): what reading gives for the content, "\r\n" and "\r"
\* translated to "\n"
RECURSIVE universal_newlines(_)
universal_newlines(content) ==
    IF content = <<>>
    THEN <<>>
    ELSE IF Head(content) = "\r"
         THEN IF Len(content) > 1 /\ content[2] = "\n"
              THEN << "\n" >> \o universal_newlines(SubSeq(content, 3, Len(content)))
              ELSE << "\n" >> \o universal_newlines(Tail(content))
         ELSE << Head(content) >> \o universal_newlines(Tail(content))

\* "for line in f": the lines of the text, each with its "\n", the last one
\* without it when the text does not end with "\n"
RECURSIVE file_lines(_)
file_lines(text) ==
    IF text = <<>>
    THEN <<>>
    ELSE LET k == FirstIn(text, {"\n"})
         IN  IF k > Len(text)
             THEN << text >>
             ELSE << SubSeq(text, 1, k) >>
                  \o file_lines(SubSeq(text, k + 1, Len(text)))

\* count_file_stats: the loop "for line in f"
RECURSIVE stats_loop(_, _)
stats_loop(remaining, stats) ==
    IF remaining = <<>>
    THEN stats
    ELSE stats_loop(Tail(remaining),
                    [ lines |-> stats.lines + 1,
                      words |-> stats.words + Len(SplitWords(Head(remaining))),
                      chars |-> stats.chars + Len(Head(remaining)) ])

\* count_file_stats(path): FileNotFoundError, or the three counts
count_file_stats(file) ==
    IF ~file.exists
    THEN [raised |-> TRUE, stats |-> [lines |-> 0, words |-> 0, chars |-> 0]]
    ELSE [raised |-> FALSE,
          stats |-> stats_loop(file_lines(universal_newlines(file.content)),
                               [lines |-> 0, words |-> 0, chars |-> 0])]

\* a call count_file_stats(path)
StatsCall ==
    /\ stat_calls = <<>>
    /\ \E file \in StatFiles :
         stat_calls' = << [ file |-> file, result |-> count_file_stats(file) ] >>
    /\ UNCHANGED <<fact_memo, fact_calls, fib_memo, fib_calls>>
    /\ UNCHANGED rotVars
    /\ UNCHANGED revVars
    /\ UNCHANGED traceVars
    /\ UNCHANGED coordVars
    /\ UNCHANGED sanVars
    /\ UNCHANGED capVars

(***************************************************************************)
(* The tracer of riven2zada4a2.py (FibonacciTracer, fibonacci_with_steps). *)
(* Every call of _fib is a frame; a step runs a frame up to the call it    *)
(* makes or up to its return.                                              *)
(***************************************************************************)
\* largest argument n of fibonacci_with_steps
MaxTraceArg == 5

\* largest max_depth of fibonacci_with_steps
MaxTraceDepth == 3

\* "  " * depth: the empty text when depth is not positive
Indent(depth) == [ k \in 1..(2 * depth) |-> " " ]

\* f"{indent}fib({n})"
CallLine(depth, n) == Indent(depth) \o << "f", "i", "b", "(" >> \o str(n) \o << ")" >>

\* f"{indent}  → {result}"
ReturnLine(depth, result) ==
    Indent(depth) \o << " ", " ", "U+2192", " " >> \o str(result)

\* a frame of _fib(x): what it does next, the value of _fib(x - 1) once it
\* has it, and its result once it has it
FibFrame(x, at, first, result) ==
    [x |-> x, at |-> at, first |-> first, result |-> result]

\* FibonacciTracer.trace_call(n): the tracer after it
trace_call(tracer, n) ==
    IF tracer.depth >= tracer.max_depth
    THEN tracer
    ELSE [ tracer EXCEPT !.call_count = @ + 1,
                         !.calls = Append(@, CallLine(tracer.depth, n)),
                         !.depth = @ + 1 ]

\* FibonacciTracer.trace_return(n, result): the tracer after it
trace_return(tracer, n, result) ==
    LET depth == tracer.depth - 1
    IN  IF depth < tracer.max_depth
        THEN [ tracer EXCEPT !.depth = depth,
                             !.calls = Append(@, ReturnLine(depth, result)) ]
        ELSE [ tracer EXCEPT !.depth = depth ]

\* the tracer object as the variables hold it
Tracer ==
    [ depth |-> trace_depth, max_depth |-> trace_args.max_depth,
      call_count |-> trace_call_count, calls |-> trace_calls ]

\* fibonacci_with_steps(n, max_depth) is called: ValueError for a negative
\* n, else a new tracer and the call _fib(n)
TraceStart ==
    /\ trace_pc = "off"
    /\ \E n \in (-1)..MaxTraceArg, max_depth \in 1..MaxTraceDepth :
         /\ trace_args' = [n |-> n, max_depth |-> max_depth]
         /\ IF n < 0
            THEN /\ trace_pc' = "raised"
                 /\ trace_frames' = <<>>
            ELSE /\ trace_pc' = "running"
                 /\ trace_frames' = << FibFrame(n, "enter", 0, 0) >>
    /\ trace_depth' = 0
    /\ trace_call_count' = 0
    /\ trace_calls' = <<>>
    /\ trace_result' = ValueError
    /\ UNCHANGED <<fact_memo, fact_calls, fib_memo, fib_calls>>
    /\ UNCHANGED rotVars
    /\ UNCHANGED revVars
    /\ UNCHANGED statVars
    /\ UNCHANGED coordVars
    /\ UNCHANGED sanVars
    /\ UNCHANGED capVars

\* _fib(x) from its start: trace_call, then the result for 0 and 1 or the
\* call _fib(x - 1)
FibEnter ==
    /\ trace_pc = "running"
    /\ trace_frames # <<>>
    /\ LET top == Len(trace_frames)
           frame == trace_frames[top]
           tracer == trace_call(Tracer, frame.x)
       IN  /\ frame.at = "enter"
           /\ trace_depth' = tracer.depth
           /\ trace_call_count' = tracer.call_count
           /\ trace_calls' = tracer.calls
           /\ trace_frames' =
                IF frame.x = 0 \/ frame.x = 1
                THEN [ trace_frames EXCEPT ![top] =
                         FibFrame(frame.x, "return", 0, frame.x) ]
                ELSE Append([ trace_frames EXCEPT ![top] =
                                FibFrame(frame.x, "first", 0, 0) ],
                            FibFrame(frame.x - 1, "enter", 0, 0))
    /\ UNCHANGED <<trace_pc, trace_args, trace_result>>
    /\ UNCHANGED <<fact_memo, fact_calls, fib_memo, fib_calls>>
    /\ UNCHANGED rotVars
    /\ UNCHANGED revVars
    /\ UNCHANGED statVars
    /\ UNCHANGED coordVars
    /\ UNCHANGED sanVars
    /\ UNCHANGED capVars

\* _fib(x) from its result on: trace_return and the return to the caller,
\* which calls _fib(x - 2) after its first call and adds after its second
FibReturn ==
    /\ trace_pc = "running"
    /\ trace_frames # <<>>
    /\ LET top == Len(trace_frames)
           frame == trace_frames[top]
           tracer == trace_return(Tracer, frame.x, frame.result)
           caller == trace_frames[top - 1]
           callers == SubSeq(trace_frames, 1, top - 1)
       IN  /\ frame.at = "return"
           /\ trace_depth' = tracer.depth
           /\ trace_call_count' = tracer.call_count
           /\ trace_calls' = tracer.calls
           /\ IF top = 1
              THEN /\ trace_frames' = <<>>
                   /\ trace_result' = Value(frame.result)
                   /\ trace_pc' = "done"
              ELSE /\ trace_frames' =
                        IF caller.at = "first"
                        THEN Append([ callers EXCEPT ![top - 1] =
                                        FibFrame(caller.x, "second",
                                                 frame.result, 0) ],
                                    FibFrame(caller.x - 2, "enter", 0, 0))
                        ELSE [ callers EXCEPT ![top - 1] =
                                 FibFrame(caller.x, "return", caller.first,
                                          caller.first + frame.result) ]
                   /\ UNCHANGED <<trace_result, trace_pc>>
    /\ UNCHANGED trace_args
    /\ UNCHANGED <<fact_memo, fact_calls, fib_memo, fib_calls>>
    /\ UNCHANGED rotVars
    /\ UNCHANGED revVars
    /\ UNCHANGED statVars
    /\ UNCHANGED coordVars
    /\ UNCHANGED sanVars
    /\ UNCHANGED capVars

\* no exercise function has been called
ExercisesOff ==
    /\ fact_memo = EmptyMemo
    /\ fact_calls = <<>>
    /\ fib_memo = EmptyMemo
    /\ fib_calls = <<>>
    /\ rot_calls = <<>>
    /\ rev_pc = "off"
    /\ rev_lines = <<>>
    /\ rev_read = 0
    /\ rev_stack = <<>>
    /\ rev_out = <<>>
    /\ rev_results = [ recursive |-> Read(FALSE, <<>>, <<>>),
                       iterative |-> Read(FALSE, <<>>, <<>>),
                       from_string |-> <<>> ]
    /\ stat_calls = <<>>
    /\ trace_pc = "off"
    /\ trace_args = [n |-> 0, max_depth |-> 0]
    /\ trace_frames = <<>>
    /\ trace_depth = 0
    /\ trace_call_count = 0
    /\ trace_calls = <<>>
    /\ trace_result = ValueError

(***************************************************************************)
(* The program: __main__ and create_report, one action per step.           *)
(***************************************************************************)
\* an empty dict
EmptyDict == [ k \in {} |-> <<>> ]

\* the directories of the model: the orchestrator, a data file, some exercises
Directories ==
    { {OWN_FILE, DATA_FILE} \cup files :
        files \in { fs \in SUBSET ExercisePool : Cardinality(fs) <= MaxFiles } }

Init ==
    /\ pc = "main"
    /\ directory \in Directories
    /\ py_files = <<>>
    /\ idx = 0
    /\ task_results = EmptyDict
    /\ captured = EmptyDict
    /\ run_order = <<>>
    /\ launches = <<>>
    /\ sources = EmptyDict
    /\ doc = <<>>
    /\ report_writes = 0
    /\ console = <<>>
    /\ san_pc = "off"
    /\ san_input = <<>>
    /\ san_result = <<>>
    /\ san_again = <<>>
    /\ cap_pc = "off"
    /\ cap_run = NO_RUN
    /\ cap_result = ReturnNone
    /\ ExercisesOff

\* __main__: the banner, then the call of create_report
MainStart ==
    /\ pc = "main"
    /\ console' = Append(console, Printed("banner", ""))
    /\ pc' = "discover"
    /\ UNCHANGED <<directory, py_files, idx, task_results, captured,
                   run_order, launches, sources, doc, report_writes>>
    /\ UNCHANGED harnessVars

\* create_report: py_files = get_python_files(); task_results = {}
Discover ==
    /\ pc = "discover"
    /\ py_files' = get_python_files(directory)
    /\ task_results' = EmptyDict
    /\ console' = Append(console, Printed("collecting", ""))
    /\ idx' = 1
    /\ pc' = "collect"
    /\ UNCHANGED <<directory, captured, run_order, launches, sources, doc,
                   report_writes>>
    /\ UNCHANGED harnessVars

\* create_report, loop body: run task_file and record its result
RunTask(task_file) ==
    \E run \in RunOutcomes :
        LET output == capture_output(run)
        IN  /\ run_order' = Append(run_order, task_file)
            /\ launches' = Append(launches,
                                  capture_command(task_file,
                                                  Get(TEST_INPUTS, task_file),
                                                  Get(TEST_ARGS, task_file)))
            /\ IF output.raised
               THEN \* the exception leaves create_report
                    /\ pc' = "main_except"
                    /\ UNCHANGED <<idx, task_results, captured, console>>
               ELSE /\ captured' = Put(captured, task_file, output)
                    /\ task_results' =
                           Put(task_results, task_file, record_result(output))
                    /\ console' =
                           Append(console,
                                  Printed(IF output.is_none THEN "no_result" ELSE "ok",
                                          task_file))
                    /\ idx' = idx + 1
                    /\ pc' = "collect"

\* create_report: one iteration of "for task_file in py_files"
CollectTask ==
    /\ pc = "collect"
    /\ idx <= Len(py_files)
    /\ RunTask(py_files[idx])
    /\ UNCHANGED <<directory, py_files, sources, doc, report_writes>>
    /\ UNCHANGED harnessVars

\* create_report: doc = Document() up to the heading of part 2
StartDocument ==
    /\ pc = "collect"
    /\ idx > Len(py_files)
    /\ doc' = front_matter(py_files)
    /\ idx' = 1
    /\ pc' = "sections"
    /\ UNCHANGED <<directory, py_files, task_results, captured,
                   run_order, launches, sources, report_writes, console>>
    /\ UNCHANGED harnessVars

\* the section loop saving the document after every section
AddTaskSection_saving ==
    /\ pc = "sections"
    /\ idx <= Len(py_files)
    /\ \E file \in SourceFiles :
         /\ sources' = Put(sources, py_files[idx], file)
         /\ doc' = doc \o task_section(idx, py_files[idx], file, task_results,
                                       Len(py_files))
    /\ idx' = idx + 1
    /\ report_writes' = report_writes + 1
    /\ UNCHANGED <<pc, directory, py_files, task_results, captured,
                   run_order, launches, console>>
    /\ UNCHANGED harnessVars

\* create_report: one iteration of "for task_num, file_path in enumerate(py_files, 1)"
AddTaskSection ==
    /\ pc = "sections"
    /\ idx <= Len(py_files)
    /\ \E file \in SourceFiles :
         /\ sources' = Put(sources, py_files[idx], file)
         /\ doc' = doc \o task_section(idx, py_files[idx], file, task_results,
                                       Len(py_files))
    /\ idx' = idx + 1
    /\ UNCHANGED <<pc, directory, py_files, task_results, captured,
                   run_order, launches, report_writes, console>>
    /\ UNCHANGED harnessVars

\* create_report: the general conclusion and the control questions
AddClosing ==
    /\ pc = "sections"
    /\ idx > Len(py_files)
    /\ doc' = doc \o closing_matter
    /\ pc' = "save"
    /\ UNCHANGED <<directory, py_files, idx, task_results, captured,
                   run_order, launches, sources, report_writes, console>>
    /\ UNCHANGED harnessVars

\* doc.save whose failure is swallowed: create_report returns all the same
SaveDocument_swallowed ==
    /\ pc = "save"
    /\ \E written \in BOOLEAN :
         /\ report_writes' = IF written THEN report_writes + 1 ELSE report_writes
         /\ console' = IF written
                       THEN console \o << Printed("report_created", ""),
                                          Printed("files_analysed", ""),
                                          Printed("file_size", "") >>
                       ELSE console
         /\ pc' = "returned"
    /\ UNCHANGED <<directory, py_files, idx, task_results, captured,
                   run_order, launches, sources, doc>>
    /\ UNCHANGED harnessVars

\* create_report: doc.save, which writes the file or raises; then the prints
SaveDocument ==
    /\ pc = "save"
    /\ \E written \in BOOLEAN :
         IF written
         THEN /\ report_writes' = report_writes + 1
              /\ console' = console \o << Printed("report_created", ""),
                                          Printed("files_analysed", ""),
                                          Printed("file_size", "") >>
              /\ pc' = "returned"
         ELSE /\ pc' = "main_except"
              /\ UNCHANGED <<report_writes, console>>
    /\ UNCHANGED <<directory, py_files, idx, task_results, captured,
                   run_order, launches, sources, doc>>
    /\ UNCHANGED harnessVars

\* __main__: create_report returned
MainReturn ==
    /\ pc = "returned"
    /\ console' = Append(console, Printed("report_ready", ""))
    /\ pc' = "done"
    /\ UNCHANGED <<directory, py_files, idx, task_results, captured,
                   run_order, launches, sources, doc, report_writes>>
    /\ UNCHANGED harnessVars

\* __main__: except Exception
MainExcept ==
    /\ pc = "main_except"
    /\ console' = console \o << Printed("report_error", ""), Printed("traceback", "") >>
    /\ pc' = "done"
    /\ UNCHANGED <<directory, py_files, idx, task_results, captured,
                   run_order, launches, sources, doc, report_writes>>
    /\ UNCHANGED harnessVars

Next ==
    \/ MainStart
    \/ Discover
    \/ CollectTask
    \/ StartDocument
    \/ AddTaskSection
    \/ AddClosing
    \/ SaveDocument
    \/ MainReturn
    \/ MainExcept

Spec == Init /\ [][Next]_vars

\* the collection loop running the exercises in any order (the schedule the
\* specification allows: section 5, "sequentially or in parallel"); idx
\* counts the exercises that have run
CollectTaskAnyOrder ==
    /\ pc = "collect"
    /\ idx <= Len(py_files)
    /\ \E task_file \in { py_files[k] : k \in 1..Len(py_files) }
                        \ { run_order[k] : k \in 1..Len(run_order) } :
          RunTask(task_file)
    /\ UNCHANGED <<directory, py_files, sources, doc, report_writes>>
    /\ UNCHANGED harnessVars

AnyOrderNext ==
    \/ MainStart
    \/ Discover
    \/ CollectTaskAnyOrder
    \/ StartDocument
    \/ AddTaskSection
    \/ AddClosing

\* the program with the exercises executed in any order, up to the
\* assembled document
AnyOrderSpec == Init /\ [][AnyOrderNext]_vars

\* the coordinator pass step by step: each exercise is launched, then exits
\* by itself, hangs until the timeout ends it, or cannot be launched at all

\* the loop going back to launch the exercise again when it gave no result
next_task_retrying(task_num, output) ==
    IF output.is_none /\ Len(run_order) < 2 * task_num
    THEN task_num
    ELSE task_num + 1

\* "for task_file in py_files": the position after the one just recorded
next_task(task_num, output) == task_num + 1

\* capture_output returns or raises; the loop body records the result
RecordRun(run) ==
    LET output == capture_output(run)
        task_file == py_files[idx]
    IN  /\ cap_run' = run
        /\ cap_result' = output
        /\ cap_pc' = "idle"
        /\ IF output.raised
           THEN \* the exception leaves create_report
                /\ pc' = "main_except"
                /\ UNCHANGED <<idx, task_results, captured, console>>
           ELSE /\ captured' = Put(captured, task_file, output)
                /\ task_results' =
                       Put(task_results, task_file, record_result(output))
                /\ console' =
                       Append(console,
                              Printed(IF output.is_none THEN "no_result" ELSE "ok",
                                      task_file))
                /\ idx' = next_task(idx, output)
                /\ pc' = "collect"

\* capture_output: subprocess.run starts the exercise
LaunchTask ==
    /\ pc = "collect"
    /\ idx <= Len(py_files)
    /\ cap_pc = "idle"
    /\ run_order' = Append(run_order, py_files[idx])
    /\ launches' = Append(launches,
                          capture_command(py_files[idx],
                                          Get(TEST_INPUTS, py_files[idx]),
                                          Get(TEST_ARGS, py_files[idx])))
    /\ cap_run' = [kind |-> "running", returncode |-> 0, stdout |-> <<>>]
    /\ cap_pc' = "running"
    /\ UNCHANGED <<pc, directory, py_files, idx, task_results, captured,
                   sources, doc, report_writes, console, cap_result>>
    /\ UNCHANGED sanVars
    /\ UNCHANGED exerciseVars

\* capture_output: subprocess.run raises before the exercise runs; the
\* handler returns None and the loop body records it
LaunchFails ==
    /\ pc = "collect"
    /\ idx <= Len(py_files)
    /\ cap_pc = "idle"
    /\ run_order' = Append(run_order, py_files[idx])
    /\ launches' = Append(launches,
                          capture_command(py_files[idx],
                                          Get(TEST_INPUTS, py_files[idx]),
                                          Get(TEST_ARGS, py_files[idx])))
    /\ \E run \in { r \in RunOutcomes : r.kind = "error" } : RecordRun(run)
    /\ UNCHANGED <<directory, py_files, sources, doc, report_writes>>
    /\ UNCHANGED sanVars
    /\ UNCHANGED exerciseVars

\* the exercise exits by itself, with status 0 or not; subprocess.run
\* returns and the loop body records the result
ExerciseExits ==
    /\ pc = "collect"
    /\ cap_pc = "running"
    /\ cap_run.kind = "running"
    /\ \E run \in { r \in RunOutcomes : r.kind = "completed" } : RecordRun(run)
    /\ UNCHANGED <<directory, py_files, run_order, launches, sources, doc,
                   report_writes>>
    /\ UNCHANGED sanVars
    /\ UNCHANGED exerciseVars

\* the exercise hangs: from now on it never exits by itself
ExerciseHangs ==
    /\ pc = "collect"
    /\ cap_pc = "running"
    /\ cap_run.kind = "running"
    /\ cap_run' = [cap_run EXCEPT !.kind = "hung"]
    /\ UNCHANGED coordVars
    /\ UNCHANGED <<cap_pc, cap_result>>
    /\ UNCHANGED sanVars
    /\ UNCHANGED exerciseVars

\* a subprocess.run without the timeout: a running exercise is never ended
TimeoutExpired_absent ==
    /\ cap_pc = "never"
    /\ UNCHANGED vars

\* subprocess.run(timeout=10): the exercise still runs after 10 seconds, is
\* killed, and TimeoutExpired is raised; the handler returns None and the
\* loop body records it
TimeoutExpired ==
    /\ pc = "collect"
    /\ cap_pc = "running"
    /\ \E run \in { r \in RunOutcomes : r.kind = "timeout" } : RecordRun(run)
    /\ UNCHANGED <<directory, py_files, run_order, launches, sources, doc,
                   report_writes>>
    /\ UNCHANGED sanVars
    /\ UNCHANGED exerciseVars

CoordInit ==
    /\ pc = "main"
    /\ directory \in Directories
    /\ py_files = <<>>
    /\ idx = 0
    /\ task_results = EmptyDict
    /\ captured = EmptyDict
    /\ run_order = <<>>
    /\ launches = <<>>
    /\ sources = EmptyDict
    /\ doc = <<>>
    /\ report_writes = 0
    /\ console = <<>>
    /\ san_pc = "off"
    /\ san_input = <<>>
    /\ san_result = <<>>
    /\ san_again = <<>>
    /\ cap_pc = "idle"
    /\ cap_run = NO_RUN
    /\ cap_result = ReturnNone
    /\ ExercisesOff

\* the steps of the program itself
CoordProgram ==
    \/ MainStart
    \/ Discover
    \/ LaunchTask
    \/ LaunchFails
    \/ StartDocument

CoordNext ==
    \/ CoordProgram
    \/ ExerciseExits
    \/ ExerciseHangs
    \/ TimeoutExpired

\* the program runs on as long as it has a step to take, and the timeout of
\* subprocess.run ends every exercise that is still running; no exercise is
\* required to exit by itself
CoordSpec ==
    /\ CoordInit
    /\ [][CoordNext]_vars
    /\ WF_vars(CoordProgram)
    /\ WF_vars(TimeoutExpired)

\* the discovery harness: get_python_files on any directory of the pool
DiscInit ==
    /\ pc = "disc_call"
    /\ directory \in SUBSET DiscPool
    /\ py_files = <<>>
    /\ idx = 0
    /\ task_results = EmptyDict
    /\ captured = EmptyDict
    /\ run_order = <<>>
    /\ launches = <<>>
    /\ sources = EmptyDict
    /\ doc = <<>>
    /\ report_writes = 0
    /\ console = <<>>
    /\ san_pc = "off"
    /\ san_input = <<>>
    /\ san_result = <<>>
    /\ san_again = <<>>
    /\ cap_pc = "off"
    /\ cap_run = NO_RUN
    /\ cap_result = ReturnNone
    /\ ExercisesOff

DiscNext == DiscoverCall

DiscSpec == DiscInit /\ [][DiscNext]_vars

\* the sanitizer harness: the program itself does not run
SanInit ==
    /\ pc = "off"
    /\ directory = {OWN_FILE}
    /\ py_files = <<>>
    /\ idx = 0
    /\ task_results = EmptyDict
    /\ captured = EmptyDict
    /\ run_order = <<>>
    /\ launches = <<>>
    /\ sources = EmptyDict
    /\ doc = <<>>
    /\ report_writes = 0
    /\ console = <<>>
    /\ san_pc = "input"
    /\ san_input \in SanTexts
    /\ san_result = <<>>
    /\ san_again = <<>>
    /\ cap_pc = "off"
    /\ cap_run = NO_RUN
    /\ cap_result = ReturnNone
    /\ ExercisesOff

SanNext ==
    \/ SanitizeCall
    \/ SanitizeAgain

SanSpec == SanInit /\ [][SanNext]_vars

\* the capture harness: the program itself does not run
CapInit ==
    /\ pc = "off"
    /\ directory = {OWN_FILE}
    /\ py_files = <<>>
    /\ idx = 0
    /\ task_results = EmptyDict
    /\ captured = EmptyDict
    /\ run_order = <<>>
    /\ launches = <<>>
    /\ sources = EmptyDict
    /\ doc = <<>>
    /\ report_writes = 0
    /\ console = <<>>
    /\ san_pc = "off"
    /\ san_input = <<>>
    /\ san_result = <<>>
    /\ san_again = <<>>
    /\ cap_pc = "call"
    /\ cap_run \in CapRuns
    /\ cap_result = ReturnNone
    /\ ExercisesOff

CapNext == CaptureCall

CapSpec == CapInit /\ [][CapNext]_vars

\* the report generator does not run and no harness is active
ProgramOff ==
    /\ pc = "off"
    /\ directory = {OWN_FILE}
    /\ py_files = <<>>
    /\ idx = 0
    /\ task_results = EmptyDict
    /\ captured = EmptyDict
    /\ run_order = <<>>
    /\ launches = <<>>
    /\ sources = EmptyDict
    /\ doc = <<>>
    /\ report_writes = 0
    /\ console = <<>>
    /\ san_pc = "off"
    /\ san_input = <<>>
    /\ san_result = <<>>
    /\ san_again = <<>>
    /\ cap_pc = "off"
    /\ cap_run = NO_RUN
    /\ cap_result = ReturnNone

\* the factorial harness: calls that share one memo dict, empty at first
FactInit == ProgramOff /\ ExercisesOff

FactNext == FactorialCall

FactSpec == FactInit /\ [][FactNext]_vars

\* the Fibonacci harness: rounds of calls that share one memo dict
FibInit == ProgramOff /\ ExercisesOff

FibNext == FibonacciCall

FibSpec == FibInit /\ [][FibNext]_vars

\* no program is running and no exercise function has been called
ExercisesInit == ProgramOff /\ ExercisesOff

\* the rotation harness: one call on any list of the harness
RotNext ==
    \/ RotateCall
    \/ ShiftCall

RotSpec == ExercisesInit /\ [][RotNext]_vars

\* the reversal harness: one run of read_and_reverse_recursive_v2
RevNext ==
    \/ ReverseStart
    \/ ReadAndPrint
    \/ InputEnds
    \/ ReturnAndPrint
    \/ ReverseFinish

RevSpec == ExercisesInit /\ [][RevNext]_vars

\* the file statistics harness: one call on any file of the harness
StatNext == StatsCall

StatSpec == ExercisesInit /\ [][StatNext]_vars

\* the tracer harness: one call of fibonacci_with_steps, step by step
TraceNext ==
    \/ TraceStart
    \/ FibEnter
    \/ FibReturn

TraceSpec == ExercisesInit /\ [][TraceNext]_vars

(***************************************************************************)
(* Properties of the Execution Coordinator.                                *)
(***************************************************************************)
\* how many times exercise f has been launched
Launches(f) == Cardinality({ k \in 1..Len(run_order) : run_order[k] = f })

\* t is s without the whitespace at its two ends
IsTrimmedBothEnds(t, s) ==
    \E a, b \in 0..Len(s) :
        /\ a + b <= Len(s)
        /\ t = SubSeq(s, a + 1, Len(s) - b)
        /\ \A k \in 1..a : s[k] \in Whitespace
        /\ \A k \in (Len(s) - b + 1)..Len(s) : s[k] \in Whitespace
        /\ t # <<>> => t[1] \notin Whitespace /\ t[Len(t)] \notin Whitespace
        /\ t = <<>> => a + b = Len(s)

\* t is s without the whitespace at its end
IsTrimmedAtEnd(t, s) ==
    \E b \in 0..Len(s) :
        /\ t = SubSeq(s, 1, Len(s) - b)
        /\ \A k \in (Len(s) - b + 1)..Len(s) : s[k] \in Whitespace
        /\ t # <<>> => t[Len(t)] \notin Whitespace

\* the run of an exercise succeeded: it completed with exit status 0
RunSucceeded(run) == run.kind = "completed" /\ run.returncode = 0

\* C1 as stated: capture_output never raises; on exit status 0 it returns the
\* standard output with only the trailing whitespace trimmed; on a non-zero
\* exit status, a timeout or a launch failure it returns None, whatever the
\* run had written.
C1_TrailingTrimOnly ==
    cap_pc = "returned" =>
        /\ ~cap_result.raised
        /\ RunSucceeded(cap_run) =>
              ~cap_result.is_none /\ IsTrimmedAtEnd(cap_result.text, cap_run.stdout)
        /\ ~RunSucceeded(cap_run) => cap_result.is_none

\* C1 amended: capture_output never raises; on exit status 0 it returns the
\* standard output with the whitespace at both ends trimmed; on a non-zero
\* exit status, a timeout or a launch failure it returns None, whatever the
\* run had written.
C1_CaptureOutputContract ==
    cap_pc = "returned" =>
        /\ ~cap_result.raised
        /\ RunSucceeded(cap_run) =>
              ~cap_result.is_none /\ IsTrimmedBothEnds(cap_result.text, cap_run.stdout)
        /\ ~RunSucceeded(cap_run) => cap_result.is_none

\* C1 witness: a run with exit status 0 whose output starts and ends with
\* whitespace was answered with the text between
C1_Witness ==
    /\ cap_pc = "returned"
    /\ RunSucceeded(cap_run)
    /\ cap_run.stdout = << " ", "a", " ", "b", "\n" >>
    /\ cap_result = Return(<< "a", " ", "b" >>)

\* the exercises whose result the collection loop has recorded so far
Collected ==
    IF pc \in {"main", "discover"}
    THEN {}
    ELSE IF pc = "collect"
         THEN { py_files[k] : k \in 1..(idx - 1) }
         ELSE { py_files[k] : k \in 1..Len(py_files) }

\* the text the loop records for what capture_output returned
ExpectedResult(r) ==
    IF r.is_none \/ sanitize_output(r.text) = <<>>
    THEN NO_OUTPUT
    ELSE sanitize_output(r.text)

\* C2: a failing exercise stops nothing: once the collection loop is left
\* every discovered exercise has been launched and has a recorded result, and
\* each recorded result is the one that exercise's own run gives, whatever
\* the other exercises did.
C2_Isolation ==
    /\ pc # "off" =>
          /\ DOMAIN task_results = Collected
          /\ DOMAIN captured = Collected
          /\ \A f \in Collected : Launches(f) = 1
    /\ \A f \in DOMAIN task_results :
          task_results[f] = ExpectedResult(captured[f])

\* C2 witness: the first exercise failed, the second one ran and has its
\* own result
C2_Witness ==
    /\ pc = "sections"
    /\ Len(py_files) = 2
    /\ captured[py_files[1]].is_none
    /\ ~captured[py_files[2]].is_none
    /\ task_results[py_files[2]] # NO_OUTPUT

(***************************************************************************)
(* Properties of the Output Sanitizer (checked under SanSpec).             *)
(***************************************************************************)
\* sanitize_output has been applied to san_input
Sanitized == san_pc \in {"once", "twice"}

\* a line with nothing but whitespace
IsBlankLine(line) == \A k \in 1..Len(line) : line[k] \in Whitespace

\* the lines without the blank lines at the two ends
TrimBlankLines(lines) ==
    IF \A k \in 1..Len(lines) : IsBlankLine(lines[k])
    THEN <<>>
    ELSE LET a == CHOOSE k \in 1..Len(lines) :
                     ~IsBlankLine(lines[k])
                     /\ \A j \in 1..(k - 1) : IsBlankLine(lines[j])
             b == CHOOSE k \in 1..Len(lines) :
                     ~IsBlankLine(lines[k])
                     /\ \A j \in (k + 1)..Len(lines) : IsBlankLine(lines[j])
         IN  SubSeq(lines, a, b)

\* C3: every line of the sanitizer's result is, character for character, a
\* line of its input.
C3_LinesVerbatim ==
    Sanitized =>
        \A k \in 1..Len(SplitLines(san_result)) :
            \E j \in 1..Len(SplitLines(san_input)) :
                SplitLines(san_result)[k] = SplitLines(san_input)[j]

\* C4: the result is the input's lines that contain no marker, in their
\* order and unchanged, joined by "\n", without the blank lines at the two
\* ends.
C4_RemovesExactlyMarkerLines ==
    Sanitized =>
        san_result =
            Join(TrimBlankLines(SelectSeq(SplitLines(san_input),
                                          LAMBDA line : ~HasMarker(line))))

DocAssembled == pc = "save"

\* where the per-exercise sections start
TaskHeadings == { i \in 1..Len(doc) : doc[i].part = "task_heading" }

\* the place of the heading of the k-th per-exercise section
SectionStart(k) ==
    LET heads == TaskHeadings
    IN  CHOOSE i \in heads : Cardinality({ j \in heads : j <= i }) = k

\* the place of the last paragraph before the next heading of level 1
SectionEnd(k) ==
    LET start == SectionStart(k)
        later == { j \in (start + 1)..Len(doc) : doc[j].style = "Heading 1" }
    IN  IF later = {}
        THEN Len(doc)
        ELSE (CHOOSE j \in later : \A m \in later : j <= m) - 1

\* the k-th per-exercise section: its paragraphs, heading first
Section(k) == SubSeq(doc, SectionStart(k), SectionEnd(k))

\* the places of a section that hold a paragraph of one of the parts
PartsAt(section, parts) ==
    { i \in 1..Len(section) : section[i].part \in parts }

\* the paragraphs of a section that show the execution output
OutputParas(section) ==
    SelectSeq(section, LAMBDA p : p.part \in {"output", "not_executed"})

\* every place of before comes before every place of after
AllBefore(before, after) == \A a \in before, b \in after : a < b

\* the text of the heading of the section of exercise f
HeadingText(f) ==
    IF f \in DOMAIN TASK_DESCRIPTIONS THEN TASK_DESCRIPTIONS[f].title ELSE f

\* C6: the assembled report has exactly one section per discovered exercise,
\* in discovery order, which is the order of the names; each section holds,
\* in this order, the overview, the source listing, the execution output or
\* a placeholder, and the conclusion.
C6_ReportStructure ==
    DocAssembled =>
        /\ Cardinality(TaskHeadings) = Len(py_files)
        /\ \A j, k \in 1..Len(py_files) :
              j < k => NameRank(py_files[j]) < NameRank(py_files[k])
        /\ \A k \in 1..Len(py_files) :
              LET section == Section(k)
                  overview == PartsAt(section, {"overview"})
                  listing == PartsAt(section, {"code", "omitted_notice"})
                  output == PartsAt(section, {"output", "not_executed"})
                  conclusion == PartsAt(section, {"conclusion"})
              IN  /\ section[1].num = k
                  /\ section[1].text = << HeadingText(py_files[k]) >>
                  /\ Cardinality(overview) = 1
                  /\ listing # {}
                  /\ output # {}
                  /\ Cardinality(conclusion) = 1
                  /\ AllBefore(overview, listing)
                  /\ AllBefore(listing, output)
                  /\ AllBefore(output, conclusion)

\* C6 witness: a complete report of two exercises, one of them not in the
\* descriptor tables
C6_Witness ==
    /\ DocAssembled
    /\ Len(py_files) = 2
    /\ py_files[2] \notin DOMAIN TASK_DESCRIPTIONS
    /\ Cardinality(TaskHeadings) = 2

\* every line of the text has a marker or is blank
OnlyDiscarded(text) ==
    \A k \in 1..Len(SplitLines(text)) :
        HasMarker(SplitLines(text)[k]) \/ IsBlankLine(SplitLines(text)[k])

\* C8: when an exercise exited with status 0 and its captured text is empty
\* or has only lines the sanitizer discards, the sanitized result is empty,
\* the recorded result is "(Bez vyvodu)" and its section shows that
\* placeholder; the output part of no section is blank.
C8_NoOutputPlaceholder ==
    DocAssembled =>
        \A k \in 1..Len(py_files) :
            LET r == captured[py_files[k]]
                shown == OutputParas(Section(k))
            IN  /\ (~r.is_none /\ OnlyDiscarded(r.text)) =>
                      /\ sanitize_output(r.text) = <<>>
                      /\ task_results[py_files[k]] = NO_OUTPUT
                      /\ shown = << Para("Normal", "output", 0, NO_OUTPUT) >>
                /\ shown # <<>>
                /\ \A i \in 1..Len(shown) : ~IsBlankLine(shown[i].text)

\* C8 witness: a complete report with an exercise that exited with status 0
\* and wrote only lines the sanitizer discards
C8_Witness ==
    /\ DocAssembled
    /\ \E k \in 1..Len(py_files) :
          /\ ~captured[py_files[k]].is_none
          /\ captured[py_files[k]].text # <<>>
          /\ OnlyDiscarded(captured[py_files[k]].text)
          /\ OutputParas(Section(k)) = << Para("Normal", "output", 0, NO_OUTPUT) >>

\* C9: the section of an exercise for which capture_output gave no result
\* shows the "not executed" placeholder.
C9_FailedShowsNotExecuted ==
    DocAssembled =>
        \A k \in 1..Len(py_files) :
            captured[py_files[k]].is_none =>
                LET shown == OutputParas(Section(k))
                IN  Len(shown) = 1 /\ shown[1].part = "not_executed"

\* the number of lines of a file: its "\n", and a last line without one
FileLineCount(content) ==
    Cardinality({ k \in 1..Len(content) : content[k] = "\n" })
    + ( IF content # <<>> /\ content[Len(content)] # "\n" THEN 1 ELSE 0 )

\* C10: a listing shows at most MAX_LINES lines, the notice of omitted
\* lines is there exactly when the file has more lines than MAX_LINES, and
\* its number is the number of lines of the file that are not shown.
C10_OmittedNotice ==
    DocAssembled =>
        \A k \in 1..Len(py_files) :
            sources[py_files[k]].readable =>
                LET lines == FileLineCount(sources[py_files[k]].content)
                    section == Section(k)
                    shown == Cardinality(PartsAt(section, {"code"}))
                    notices == PartsAt(section, {"omitted_notice"})
                IN  /\ shown <= MAX_LINES
                    /\ Cardinality(notices) <= 1
                    /\ notices # {} <=> lines > MAX_LINES
                    /\ \A i \in notices : section[i].num = lines - shown

\* the lines of a text that are not blank
NonBlankLines(text) == SelectSeq(Split(text), LAMBDA ln : ~IsBlankLine(ln))

\* C7: whatever the order in which the exercises were executed, the k-th
\* section of the report is the section of the k-th discovered exercise and
\* shows that exercise's own result, listing and conclusion.
C7_OrderIndependent ==
    DocAssembled =>
        /\ Cardinality(TaskHeadings) = Len(py_files)
        /\ \A k \in 1..Len(py_files) :
              LET f == py_files[k]
                  section == Section(k)
                  shown == OutputParas(section)
                  expected == NonBlankLines(ExpectedResult(captured[f]))
              IN  /\ section[1].num = k
                  /\ section[1].text = << HeadingText(f) >>
                  /\ Len(shown) = Len(expected)
                  /\ \A i \in 1..Len(shown) :
                        shown[i].part = "output" /\ shown[i].text = expected[i]
                  /\ \A i \in PartsAt(section, {"conclusion"}) :
                        section[i].text = << get_task_conclusions(f) >>

\* C7 witness: a complete report of two exercises with different results
\* that were executed in the reverse of the discovery order
C7_Witness ==
    /\ DocAssembled
    /\ Len(py_files) = 2
    /\ run_order = << py_files[2], py_files[1] >>
    /\ task_results[py_files[1]] # task_results[py_files[2]]

(***************************************************************************)
(* Error handling of the run (checked under Spec).                         *)
(***************************************************************************)
\* the listing of a section whose source file could not be read
ReadErrorListing ==
    << Para("Normal", "code", 0, << "Pomylka chytannya faylu: <e>" >>) >>

\* the document is complete: its last paragraph is the last one of create_report
DocComplete == doc # <<>> /\ doc[Len(doc)].part = "q3_answer"

\* C11: an exercise file that cannot be read stops nothing: reading it gives
\* a one-line message instead of raising, the run goes on through all
\* sections to doc.save, and in the assembled report every exercise has its
\* section, the one of the unreadable file with that message as its listing.
C11_UnreadableSourceRecovered ==
    /\ \A f \in DOMAIN sources :
          ~sources[f].readable =>
              /\ pc \in {"sections", "save", "returned", "main_except", "done"}
              /\ pc \in {"save", "returned", "main_except", "done"} => DocComplete
    /\ DocAssembled =>
          /\ Cardinality(TaskHeadings) = Len(py_files)
          /\ \A k \in 1..Len(py_files) :
                ~sources[py_files[k]].readable =>
                    LET section == Section(k)
                    IN  SelectSeq(section,
                                  LAMBDA p : p.part \in {"code", "omitted_notice"})
                            = ReadErrorListing

\* C11 witness: the first of two files could not be read, the second one
\* could, and the document is ready to be saved
C11_Witness ==
    /\ DocAssembled
    /\ Len(py_files) = 2
    /\ ~sources[py_files[1]].readable
    /\ sources[py_files[2]].readable
    /\ Cardinality(TaskHeadings) = 2

\* the console shows the message
Shown(msg) == \E i \in 1..Len(console) : console[i].msg = msg

\* every discovered exercise has been launched and has its section
AllTasksDone ==
    /\ Len(run_order) = Len(py_files)
    /\ DOMAIN sources = { py_files[k] : k \in 1..Len(py_files) }

C13_SingleFinalWrite ==
    /\ report_writes <= 1
    /\ pc \in {"main", "discover", "collect", "sections", "save"} =>
          report_writes = 0
    /\ report_writes = 1 =>
          /\ pc \in {"returned", "done"}
          /\ AllTasksDone
          /\ DocComplete
          /\ Cardinality(TaskHeadings) = Len(py_files)

\* C13 witness: a run of two exercises that wrote the report
C13_Witness ==
    /\ pc = "done"
    /\ Len(py_files) = 2
    /\ report_writes = 1
    /\ Cardinality(TaskHeadings) = 2

(***************************************************************************)
(* Properties of discovery (checked under DiscSpec).                       *)
(***************************************************************************)
\* the names of the pool in the order sorted() gives them
SortedPool ==
    << "Laba3_zvit.py", "Zeta.py", "laba3_zvit.py", "notes.pyc", "riven10.py",
       "riven1zada4a1.py", "riven2.py", "riven3_test_count.txt",
       "riven3zada4a1.py", "zavdannya_x.py" >>

\* the names of the pool that are scripts
ScriptNames ==
    { "Laba3_zvit.py", "Zeta.py", "laba3_zvit.py", "riven10.py",
      "riven1zada4a1.py", "riven2.py", "riven3zada4a1.py", "zavdannya_x.py" }

\* C14: get_python_files returns every script of the directory except the
\* orchestrator's own file, each one once, in lexicographic order of the
\* names.
C14_Discovery ==
    pc = "disc_returned" =>
        LET expected == SelectSeq(SortedPool,
                                  LAMBDA n : /\ n \in directory
                                             /\ n \in ScriptNames
                                             /\ n # "Laba3_zvit.py")
        IN  /\ py_files = expected
            /\ \A j, k \in 1..Len(py_files) : j # k => py_files[j] # py_files[k]
            /\ { py_files[k] : k \in 1..Len(py_files) }
                   = (directory \cap ScriptNames) \ { "Laba3_zvit.py" }

\* C14 witness: a directory with the orchestrator, a data file, a compiled
\* file and scripts whose names differ in case and in length
C14_Witness ==
    /\ pc = "disc_returned"
    /\ directory = { "Laba3_zvit.py", "riven3_test_count.txt", "notes.pyc",
                     "Zeta.py", "riven10.py", "riven2.py", "laba3_zvit.py" }
    /\ py_files = << "Zeta.py", "laba3_zvit.py", "riven10.py", "riven2.py" >>

(***************************************************************************)
(* Properties of the coordinator pass (checked under CoordSpec).           *)
(***************************************************************************)
\* the exercise launched last
LastLaunched == run_order[Len(run_order)]

\* the last exercise did not give a result: it timed out, could not be
\* launched, or exited with a non-zero status
LastRunFailed == cap_run.kind \in {"timeout", "error"} \/ cap_run.returncode # 0

\* the loop has recorded the last launched exercise and gone on
LastRecorded ==
    /\ cap_pc = "idle"
    /\ run_order # <<>>
    /\ pc \in {"collect", "sections"}

\* C15: the coordinator pass always ends, whatever the exercises do; an
\* exercise that hangs is ended by the timeout, is recorded as "no result",
\* and the loop goes on with the next exercise instead of ending the run.
C15_PassTerminates ==
    /\ <>(pc = "sections")
    /\ [](pc # "main_except")
    /\ []((LastRecorded /\ cap_run.kind = "timeout") =>
             /\ captured[LastLaunched].is_none
             /\ task_results[LastLaunched] = NO_OUTPUT
             /\ console[Len(console)] = Printed("no_result", LastLaunched)
             /\ pc = "collect" => idx = Len(run_order) + 1)
    /\ (cap_run.kind = "hung") ~> (LastRecorded /\ cap_run.kind = "timeout")

\* C15 witness: the first of two exercises hung and was ended by the
\* timeout; the loop stands before the second one
C15_Witness ==
    /\ pc = "collect"
    /\ Len(py_files) = 2
    /\ idx = 2
    /\ cap_pc = "idle"
    /\ cap_run.kind = "timeout"
    /\ captured[py_files[1]].is_none

\* C16: in a coordinator pass no exercise is launched twice, only discovered
\* exercises are launched, and when the pass is over each of them has been
\* launched exactly once; after a run without result the loop has moved on
\* to the next exercise.
C16_LaunchedExactlyOnce ==
    /\ \A k \in 1..Len(run_order) : run_order[k] = py_files[k]
    /\ \A f \in { py_files[k] : k \in 1..Len(py_files) } : Launches(f) <= 1
    /\ pc = "sections" =>
          \A f \in { py_files[k] : k \in 1..Len(py_files) } : Launches(f) = 1
    /\ (LastRecorded /\ LastRunFailed /\ pc = "collect") =>
          idx = Len(run_order) + 1

\* C16 witness: the pass over two exercises is over; the first one gave no
\* result, the second one exited with a non-zero status
C16_Witness ==
    /\ pc = "sections"
    /\ Len(py_files) = 2
    /\ captured[py_files[1]].is_none
    /\ cap_run.kind = "completed"
    /\ cap_run.returncode # 0
    /\ run_order = py_files

(***************************************************************************)
(* Exercises outside the descriptor tables (checked under Spec).           *)
(***************************************************************************)
\* the exercise is in none of the descriptor tables
Undescribed(f) ==
    f \notin (DOMAIN TASK_DESCRIPTIONS) \cup (DOMAIN CONCLUSIONS)
             \cup (DOMAIN TEST_INPUTS) \cup (DOMAIN TEST_ARGS)

\* the one paragraph of a section that has the given part
TheParagraph(section, part) ==
    section[CHOOSE i \in 1..Len(section) : section[i].part = part]

\* C17: an exercise that is in none of the descriptor tables is launched with
\* no arguments and empty standard input, and in the assembled report it has
\* a full section: the heading is its file name, the overview has the generic
\* description and topic, the listing and the output are there, and the
\* conclusion is the default text; the run is not ended by a lookup.
C17_UndescribedDegrades ==
    /\ \A i \in 1..Len(launches) :
          Undescribed(run_order[i]) =>
              launches[i] = [ cmd |-> << "sys.executable", run_order[i] >>,
                              input |-> <<>> ]
    /\ pc = "main_except" => DocComplete
    /\ DocAssembled =>
          \A k \in 1..Len(py_files) :
              Undescribed(py_files[k]) =>
                  LET section == Section(k)
                  IN  /\ section[1].part = "task_heading"
                      /\ section[1].num = k
                      /\ section[1].text = << py_files[k] >>
                      /\ Cardinality(PartsAt(section, {"overview"})) = 1
                      /\ TheParagraph(section, "overview").text
                             = << "Vykonannya zavdannya", "\n", "Tema: ", "Python" >>
                      /\ PartsAt(section, {"code", "omitted_notice"}) # {}
                      /\ OutputParas(section) # <<>>
                      /\ Cardinality(PartsAt(section, {"conclusion"})) = 1
                      /\ TheParagraph(section, "conclusion").text
                             = << "Zavdannya vykonano uspishno." >>

\* C17 witness: a complete report whose second exercise is in none of the
\* tables and was launched without arguments and input, next to a described
\* exercise that was launched with its test input
C17_Witness ==
    /\ DocAssembled
    /\ Len(py_files) = 2
    /\ ~Undescribed(py_files[1])
    /\ launches[1].input # <<>>
    /\ Undescribed(py_files[2])
    /\ launches[2] = [ cmd |-> << "sys.executable", py_files[2] >>, input |-> <<>> ]
    /\ Section(2)[1].text = << py_files[2] >>

(***************************************************************************)
(* Determinism of the assembler (checked under Spec).                      *)
(***************************************************************************)
\* the sections the section loop gives for the files from position k on
RECURSIVE SectionsFrom(_, _, _, _)
SectionsFrom(k, files, results, srcs) ==
    IF k > Len(files)
    THEN <<>>
    ELSE task_section(k, files[k], srcs[files[k]], results, Len(files))
         \o SectionsFrom(k + 1, files, results, srcs)

\* the document as a function of the inputs of the assembler: the discovered
\* files (with their descriptors), the recorded results, the source files
ReportOf(files, results, srcs) ==
    front_matter(files) \o SectionsFrom(1, files, results, srcs) \o closing_matter

FactorialTable ==
    << 1, 1, 2, 6, 24, 120, 720, 5040, 40320, 362880, 3628800, 39916800,
       479001600 >>

\* n!
Factorial(n) == FactorialTable[n + 1]

\* C19: in every sequence of calls factorial_recursive(n, memo) with n >= 0
\* on one memo dict that was empty at first, each call returns n!, which is
\* also what factorial_iterative(n) returns, and after each call every key k
\* of the memo dict maps to k!.
C19_FactorialMemo ==
    /\ \A i \in 1..Len(fact_calls) :
          LET call == fact_calls[i]
          IN  call.n >= 0 =>
                  /\ call.recursive = Value(Factorial(call.n))
                  /\ call.iterative = call.recursive
    /\ \A k \in DOMAIN fact_memo : fact_memo[k] = Factorial(k)

\* C19 witness: three calls on one memo dict; the second one finds its
\* argument in the dict, the third one goes on from the largest key
C19_Witness ==
    /\ Len(fact_calls) = 3
    /\ fact_calls[1].n = 5
    /\ fact_calls[2].n = 3
    /\ fact_calls[3].n = 7
    /\ fact_calls[3].recursive = Value(5040)
    /\ DOMAIN fact_memo = 2..7

\* F(0), F(1), ..., F(12)
FibonacciTable == << 0, 1, 1, 2, 3, 5, 8, 13, 21, 34, 55, 89, 144 >>

\* F(n), with F(0) = 0, F(1) = 1, F(n) = F(n-1) + F(n-2)
Fibonacci(n) == FibonacciTable[n + 1]

\* the table follows the definition of the Fibonacci numbers
FibonacciTableIsDefinition ==
    /\ FibonacciTable[1] = 0
    /\ FibonacciTable[2] = 1
    /\ \A k \in 3..Len(FibonacciTable) :
          FibonacciTable[k] = FibonacciTable[k - 1] + FibonacciTable[k - 2]

\* C20: for every n >= 0 all Fibonacci functions agree with the definition:
\* fibonacci_recursive(n), fibonacci_memoized(n) with a fresh memo dict and
\* with one shared with earlier calls, and fibonacci_iterative(n) return F(n),
\* and fibonacci_generator(n) yields F(0), F(1), ..., F(n) and nothing else.
C20_FibonacciAgree ==
    /\ FibonacciTableIsDefinition
    /\ \A i \in 1..Len(fib_calls) :
          LET call == fib_calls[i]
          IN  call.n >= 0 =>
                  /\ call.recursive = Value(Fibonacci(call.n))
                  /\ call.memoized = Value(Fibonacci(call.n))
                  /\ call.shared = Value(Fibonacci(call.n))
                  /\ call.iterative = Value(Fibonacci(call.n))
                  /\ ~call.generated.raised
                  /\ call.generated.value
                         = [ k \in 1..(call.n + 1) |-> Fibonacci(k - 1) ]
    /\ \A k \in DOMAIN fib_memo : fib_memo[k] = Fibonacci(k)

\* C20 witness: three rounds on one memo dict; the second one finds its
\* argument in the dict, the third one goes on from the largest key
C20_Witness ==
    /\ Len(fib_calls) = 3
    /\ fib_calls[1].n = 6
    /\ fib_calls[2].n = 4
    /\ fib_calls[3].n = 8
    /\ fib_calls[3].shared = Value(21)
    /\ fib_calls[3].generated.value = << 0, 1, 1, 2, 3, 5, 8, 13, 21 >>
    /\ DOMAIN fib_memo = 2..8

(***************************************************************************)
(* Claims about riven1zada4a4.py (cyclic shift of a list).                 *)
(***************************************************************************)
\* the last call of the rotation harness
RotCall == rot_calls[Len(rot_calls)]

\* a call of rotate_list_right on a non-empty list has been made
RotateCalled ==
    /\ rot_calls # <<>>
    /\ RotCall.fn = "rotate"
    /\ RotCall.lst # <<>>

\* C21: for every non-empty list lst of length n and every integer step
\* (negative, zero, or larger than n), rotate_list_right(lst, step) returns
\* a new list r with r[(i + step) mod n] = lst[i] for every index i,
\* rotate_list_left(r, step) gives lst back, and the argument list is not
\* modified.
C21_RotateRight ==
    RotateCalled =>
        LET lst == RotCall.lst
            n == Len(lst)
            r == RotCall.right.list
        IN  /\ ~RotCall.right.same_object
            /\ Len(r) = n
            /\ \A i \in 0..(n - 1) : r[((i + RotCall.step) % n) + 1] = lst[i + 1]
            /\ RotCall.back.list = lst
            /\ RotCall.right.lst_after = lst
            /\ RotCall.back.lst_after = r

\* a list of distinct elements was rotated by a negative step longer than
\* the list, the result differs from the list, and rotating left restores it
C21_Witness ==
    /\ RotateCalled
    /\ RotCall.lst = <<1, 2, 3>>
    /\ RotCall.step = -MaxStep
    /\ RotCall.right.list # RotCall.lst
    /\ RotCall.back.list = RotCall.lst

\* a call of cyclic_shift_repeated on a non-empty list with valid arguments
ShiftCalled ==
    /\ rot_calls # <<>>
    /\ RotCall.fn = "shift"
    /\ RotCall.lst # <<>>
    /\ RotCall.times >= 0
    /\ RotCall.direction \in {"right", "left"}

\* the list rotated by step in the direction of the call
RotatedBy(list, step, direction) ==
    IF direction = "right"
    THEN [ k \in 1..Len(list) |-> list[((k - 1 - step) % Len(list)) + 1] ]
    ELSE [ k \in 1..Len(list) |-> list[((k - 1 + step) % Len(list)) + 1] ]

\* C22: for a non-empty list, times >= 0 and direction right or left,
\* cyclic_shift_repeated returns (final, history) where history has exactly
\* times + 1 states, history[0] is the input, each history[i+1] is
\* history[i] rotated by step in the given direction, final is the last
\* state, and the input list is unchanged; shifting a list of length n by 1
\* exactly n times returns the original list.
C22_ShiftRepeated ==
    ShiftCalled =>
        LET call == RotCall
            out == call.shifted
        IN  /\ ~out.raised
            /\ Len(out.history) = call.times + 1
            /\ out.history[1] = call.lst
            /\ \A i \in 1..call.times :
                 out.history[i + 1] = RotatedBy(out.history[i], call.step,
                                                call.direction)
            /\ out.final = out.history[Len(out.history)]
            /\ out.lst_after = call.lst
            /\ (call.step = 1 /\ call.times = Len(call.lst)) => out.final = call.lst

\* a list of three distinct elements was shifted by 1 three times, through
\* states that differ from it, back to itself
C22_Witness ==
    /\ ShiftCalled
    /\ RotCall.lst = <<1, 2, 3>>
    /\ RotCall.step = 1
    /\ RotCall.times = 3
    /\ RotCall.shifted.history[2] # RotCall.lst
    /\ RotCall.shifted.final = RotCall.lst

(***************************************************************************)
(* Claims about riven2zada4a4.py (a sequence ending with 0, reversed).     *)
(***************************************************************************)
\* the line is an integer for int()
IsInteger(line) == ~int(line).raised

\* the line is an integer and its value is 0
IsZero(line) == IsInteger(line) /\ int(line).value = 0

\* the values of the lines that are integers
Integers_(lines) ==
    LET kept == SelectSeq(lines, IsInteger)
    IN  [ k \in 1..Len(kept) |-> int(kept[k]).value ]

\* the lines before the first line that is a 0
BeforeFirstZero(lines) ==
    LET zeros == { k \in 1..Len(lines) : IsZero(lines[k]) }
    IN  IF zeros = {}
        THEN lines
        ELSE SubSeq(lines, 1, (CHOOSE k \in zeros : \A j \in zeros : k <= j) - 1)

\* some line is a 0
HasZero(lines) == \E k \in 1..Len(lines) : IsZero(lines[k])

\* the integers the user enters before the first 0
Entered(lines) == Integers_(BeforeFirstZero(lines))

\* a printed line that consists of two spaces and an integer
IsNumberLine(piece) ==
    /\ piece.end = << "\n" >>
    /\ Len(piece.text) > 2
    /\ SubSeq(piece.text, 1, 2) = << " ", " " >>
    /\ IsInteger(SubSeq(piece.text, 3, Len(piece.text)))
    /\ piece = NumberLine(int(SubSeq(piece.text, 3, Len(piece.text))).value)

\* the numbers that were printed, in the order of printing
PrintedNumbers(out) ==
    LET printed == SelectSeq(out, IsNumberLine)
    IN  [ k \in 1..Len(printed) |->
            int(SubSeq(printed[k].text, 3, Len(printed[k].text))).value ]

\* how many times the message for a line that is not an integer was printed
Reported(out) ==
    Cardinality({ k \in 1..Len(out) : out[k].text = INTEGER_EXPECTED })

\* the numbers of the frames that print when they get control back
Waiting(stack) ==
    LET printing == SelectSeq(stack, LAMBDA frame : frame.prints)
    IN  [ k \in 1..Len(printing) |-> printing[k].num ]

\* the readers have been given lines that contain a 0
ReadersCalled == rev_pc # "off" /\ HasZero(rev_lines)

\* C23: read_and_reverse_recursive reads integers until 0 is entered and
\* prints the entered numbers in reverse order: for the input x1, ..., xk, 0
\* the numbers xk, ..., x1 appear in the output in that order.
C23_RecursivePrintsReversed ==
    ReadersCalled =>
        /\ ~rev_results.recursive.raised
        /\ PrintedNumbers(rev_results.recursive.out)
             = Reversed(Entered(rev_lines))

EndsWithZero(lines) == lines # <<>> /\ lines[Len(lines)] = << "0" >>

\* C25: a 0 inside the sequence is ordinary data and only the final 0 is
\* the terminator: for the input 5 0 3 0 1 0 the sequence read is
\* 5, 0, 3, 0, 1 and its reversal is 1, 0, 3, 0, 5, for
\* reverse_sequence_from_string and for the interactive readers.
C25_OnlyFinalZeroTerminates ==
    (rev_pc # "off" /\ EndsWithZero(rev_lines)) =>
        LET sequence == Integers_(SubSeq(rev_lines, 1, Len(rev_lines) - 1))
        IN  /\ rev_lines = Test5Lines => sequence = << 5, 0, 3, 0, 1 >>
            /\ rev_results.from_string = Reversed(sequence)
            /\ rev_results.iterative.value = Reversed(sequence)
            /\ rev_pc = "done" => PrintedNumbers(rev_out) = Reversed(sequence)

\* what the readers do with the lines of Test 5: they stop at the first 0
C25_Test5StopsAtFirstZero ==
    /\ rev_pc = "done"
    /\ rev_lines = Test5Lines
    /\ rev_results.from_string = << 5 >>
    /\ rev_results.iterative.value = << 5 >>
    /\ PrintedNumbers(rev_out) = << 5 >>

\* read_and_reverse_recursive has read two numbers and a 0 and printed no
\* number
C23_NothingPrinted ==
    /\ ReadersCalled
    /\ rev_lines = << << "1" >>, << "-", "3" >>, << "0" >> >>
    /\ ~rev_results.recursive.raised
    /\ PrintedNumbers(rev_results.recursive.out) = <<>>

(***************************************************************************)
(* Claims about riven3zada4a1.py (lines, words and characters of a file).  *)
(***************************************************************************)
\* count_file_stats has been called on a file that exists
StatsCalled == stat_calls # <<>> /\ stat_calls[1].file.exists

\* how many characters of the text are c
Occurrences(text, c) == Cardinality({ k \in 1..Len(text) : text[k] = c })

\* C26: for every file content, count_file_stats returns lines = the number
\* of newline-terminated lines of the file, words = the number of
\* whitespace-separated tokens, and chars = the number of characters,
\* newlines included.
C26_FileStats ==
    StatsCalled =>
        LET content == stat_calls[1].file.content
            stats == stat_calls[1].result.stats
        IN  /\ ~stat_calls[1].result.raised
            /\ stats.lines = Occurrences(content, "\n")
            /\ stats.words = Len(SplitWords(content))
            /\ stats.chars = Len(content)

\* a file whose only line has no newline at its end is counted as one line
C26_UnterminatedLineCounted ==
    /\ StatsCalled
    /\ stat_calls[1].file.content = << "a" >>
    /\ stat_calls[1].result.stats = [lines |-> 1, words |-> 1, chars |-> 1]

\* a file with a line that ends in "\r\n" has fewer characters counted than
\* it holds
C26_CarriageReturnNotCounted ==
    /\ StatsCalled
    /\ stat_calls[1].file.content = << "a", "\r", "\n" >>
    /\ stat_calls[1].result.stats = [lines |-> 1, words |-> 1, chars |-> 2]

\* for files that end with "\n" or are empty and hold no "\r", the counts
\* are the ones of the definition
C26_TerminatedFilesCounted ==
    StatsCalled =>
        LET content == stat_calls[1].file.content
            stats == stat_calls[1].result.stats
        IN  ( /\ Occurrences(content, "\r") = 0
              /\ content = <<>> \/ content[Len(content)] = "\n" )
            => /\ stats.lines = Occurrences(content, "\n")
               /\ stats.words = Len(SplitWords(content))
               /\ stats.chars = Len(content)

(***************************************************************************)
(* Claims about the tracer of riven2zada4a2.py.                            *)
(***************************************************************************)
\* the number of spaces a line of the trace starts with
LeadingSpaces(line) == FirstNotIn(line, {" "}) - 1

\* the line records a call: "fib(x)" after its indentation
IsCallLine(line) ==
    /\ LeadingSpaces(line) < Len(line)
    /\ line[LeadingSpaces(line) + 1] = "f"

\* the line records a result: the arrow after its indentation
IsReturnLine(line) ==
    /\ LeadingSpaces(line) < Len(line)
    /\ line[LeadingSpaces(line) + 1] = "U+2192"

\* the lines of the trace that record a call with this indentation
CallLinesAt(spaces) ==
    { k \in 1..Len(trace_calls) :
        IsCallLine(trace_calls[k]) /\ LeadingSpaces(trace_calls[k]) = spaces }

\* the lines of the trace that record the result of a call with this
\* indentation: the arrow stands two spaces further in
ReturnLinesAt(spaces) ==
    { k \in 1..Len(trace_calls) :
        IsReturnLine(trace_calls[k])
        /\ LeadingSpaces(trace_calls[k]) = spaces + 2 }

\* fibonacci_with_steps(n, max_depth) has been called with n >= 0
TraceCalled == trace_pc \in {"running", "done"}

\* the indentations a trace can have
Indentations == 0..(2 * (MaxTraceArg + MaxTraceDepth))

\* C27: for every n >= 0 and max_depth >= 1, while
\* fibonacci_with_steps(n, max_depth) runs the tracer's depth is never
\* negative and it is 0 when the computation has finished, and the trace is
\* balanced: one result line for each recorded call line, at the call's
\* indentation, and none for a call the depth limit suppressed.
C27_TraceBalanced ==
    TraceCalled =>
        /\ trace_depth >= 0
        /\ trace_pc = "done" =>
             /\ trace_depth = 0
             /\ \A k \in 1..Len(trace_calls) :
                  /\ IsCallLine(trace_calls[k]) \/ IsReturnLine(trace_calls[k])
                  /\ LeadingSpaces(trace_calls[k]) \in Indentations
             /\ Cardinality({ k \in 1..Len(trace_calls) :
                                IsCallLine(trace_calls[k]) }) = trace_call_count
             /\ \A spaces \in Indentations :
                  Cardinality(ReturnLinesAt(spaces))
                    = Cardinality(CallLinesAt(spaces))

\* fib(2) traced with max_depth 1: a result line for the suppressed call
\* fib(1), three result lines for two recorded calls, and depth -1 at the end
C27_DepthBelowZero ==
    /\ trace_pc = "done"
    /\ trace_args = [n |-> 2, max_depth |-> 1]
    /\ trace_result = Value(1)
    /\ trace_depth = -1
    /\ trace_call_count = 2
    /\ trace_calls = << CallLine(0, 2), ReturnLine(0, 1), CallLine(0, 0),
                        ReturnLine(0, 0), ReturnLine(0, 1) >>

\* when no call is deeper than max_depth allows (n <= max_depth) the depth
\* stays non-negative and the trace is balanced
C27_BalancedWithinLimit ==
    (TraceCalled /\ trace_args.n <= trace_args.max_depth) => C27_TraceBalanced

\* fibonacci_with_steps returns the Fibonacci number whatever the tracer does
C27_ResultIsFibonacci ==
    trace_pc = "done" => trace_result = Value(fibonacci_iterative(trace_args.n).value)

====
